---- MODULE Spec2Model ----
(***************************************************************************)
(* Model of the WAMR Arduino wrapper (src/src/WAMR.cpp, WAMR.h):           *)
(* the process-wide WamrRuntime (begin/end), the per-object WamrModule     *)
(* controller (load/unload, callFunction on a worker thread,               *)
(* callFunctionRaw, construction and destruction), the system heap the     *)
(* global pool is taken from and the opaque engine the wrapper drives.     *)
(*                                                                         *)
(* Every public operation is one action.  The body of an operation is a    *)
(* function from the state before the call (a record with one field per    *)
(* variable) to the state after it, composed of the code's branches.       *)
(* The answers of the collaborators (allocator, engine) are inputs of the  *)
(* action.  `calls' is the list of collaborator calls the operation made,  *)
(* in order, and `ret' its return value.                                   *)
(***************************************************************************)
EXTENDS Integers, Sequences, FiniteSets

\* ------------------------------------------------------------------ bounds
MaxBufs == 1          \* addresses each memory class of the system heap can hand out
MaxHandles == 2       \* handles of each kind the engine can hand out
NumControllers == 1   \* WamrModule objects in the program
SizeSpread == 1       \* how many sizes next to each boundary are tried
MaxThreads == 2       \* thread ids the system can hand out

\* --------------------------------------------------------------- constants
NULL == 0
WAMR_MIN_HEAP_SIZE == 16 * 1024
WAMR_DEFAULT_HEAP_POOL == 128 * 1024
WAMR_DEFAULT_STACK_SIZE == 16 * 1024
WAMR_DEFAULT_THREAD_STACK == 32 * 1024
ERROR_BUF_SIZE == 128

NoError == "nullptr"
ErrTooSmall == "Heap pool size too small (min 16KB)"
ErrAllocFailed == "Failed to allocate global heap"
ErrInitFailed == "Failed to initialize WAMR runtime"
ErrNotInitialized == "WAMR runtime not initialized"
EmptyBuf == ""
EngineLoadError == "WASM module load failed"
EngineInstantiateError == "WASM module instantiate failed"
ErrAttrInit == "Failed to initialize pthread attributes"
ErrSetStack == "Failed to set pthread stack size"
ErrCreateThread == "Failed to create pthread for WASM execution"
ErrNotLoaded == "Module not loaded"
ErrExecEnv == "Failed to create execution environment"
ErrCallFailed == "Function call failed"
NoException == ""
ExceptionText == "out of bounds memory access"

\* ----------------------------------------------------------------- inputs
SpiramAddrs == 1..MaxBufs
InternalAddrs == (MaxBufs + 1)..(2 * MaxBufs)
SmallSizes == (0..(SizeSpread - 1)) \cup ((WAMR_MIN_HEAP_SIZE - SizeSpread)..(WAMR_MIN_HEAP_SIZE - 1))
ValidSizes == (WAMR_MIN_HEAP_SIZE..(WAMR_MIN_HEAP_SIZE + SizeSpread - 1)) \cup {WAMR_DEFAULT_HEAP_POOL}
HeapSizes == SmallSizes \cup ValidSizes
Controllers == 1..NumControllers
ModHandles == 1..MaxHandles
InstHandles == 1..MaxHandles
MalformedBytes == 0
WasmBytes == {MalformedBytes, 1}
StackSizes == {WAMR_DEFAULT_STACK_SIZE, 8 * 1024}
NoPool == [buf |-> NULL, size |-> 0]
ThreadIds == 1..MaxThreads
EnvHandles == 1..MaxHandles
RECURSIVE Repeat(_, _)
Repeat(str, n) == IF n = 0 THEN "" ELSE str \o Repeat(str, n - 1)
\* The longest name the not-found message still holds whole, and the next longer one.
NameThatFits == Repeat("f", 117)
NameTooLong == Repeat("g", 118)
ExportedNames == {"add", "get_memsize"}
MissingNames == {"doesNotExist", NameThatFits, NameTooLong}
NullArgv == <<>>
\* The calls the program makes: add(42, 58) with its two argument cells,
\* get_memsize() without an array or with one cell for the result, and names
\* the module does not export.
CallShapes ==
  {[name |-> "add", argc |-> 2, argv |-> <<42, 58>>],
   [name |-> "get_memsize", argc |-> 0, argv |-> NullArgv],
   [name |-> "get_memsize", argc |-> 0, argv |-> <<0>>]}
  \cup {[name |-> n, argc |-> 0, argv |-> NullArgv] : n \in MissingNames}
ResultValues == {100, 7}
NoValue == -1
Exceptions == {NoException, ExceptionText}
NoCtx == [module |-> 0, func_name |-> "", argc |-> 0, argv |-> FALSE, success |-> FALSE]

VARIABLES
  initialized,              \* WamrRuntime::initialized
  global_heap_buf,          \* WamrRuntime::global_heap_buf
  error_msg,                \* WamrRuntime::error_msg
  heapLive,                 \* system heap: addresses allocated and not freed
  badFree,                  \* system heap: free() was given an address not allocated
  engineUp,                 \* engine: initialised and not destroyed
  pool,                     \* engine: the pool it was initialised with
  liveModules,              \* engine: compiled units loaded and not unloaded
  liveInsts,                \* engine: <<instance, unit>> instantiated and not deinstantiated
  misuse,                   \* engine: called with a dead handle or in the wrong state
  module,                   \* WamrModule::module, per controller
  module_inst,              \* WamrModule::module_inst
  stack_size_for_exec_env,  \* WamrModule::stack_size_for_exec_env
  error_buf,                \* WamrModule::error_buf
  last_result,              \* WamrModule::last_result
  loaded,                   \* WamrModule::loaded
  op,                       \* the operation that ran last and its arguments
  calls,                    \* collaborator calls made by that operation, in order
  ret,                      \* its return value (TRUE for an operation returning void)
  alive,                    \* per controller: constructed and not yet destroyed
  thread_stack_size,        \* WamrModule::thread_stack_size
  liveEnvs,                 \* engine: execution environments created and not destroyed
  running,                  \* threads created whose start routine has not returned
  exited,                   \* threads whose start routine has returned, not yet joined
  pc,                       \* primary thread: "idle" between operations, "joining" in pthread_join
  ctx,                      \* the WasmCallContext on the stack of callFunction
  thread,                   \* the pthread_t on the stack of callFunction
  func,                     \* func_name argument of the operation
  argv,                     \* the caller's argument array (NullArgv for nullptr)
  wasmResult                \* value the wasm function returned in this operation

vars == <<initialized, global_heap_buf, error_msg, heapLive, badFree, engineUp,
          pool, liveModules, liveInsts, misuse, module, module_inst,
          stack_size_for_exec_env, error_buf, last_result, loaded, op, calls, ret,
          alive, thread_stack_size, liveEnvs, running, exited, pc, ctx, thread,
          func, argv, wasmResult>>

\* The state as one record, and the assignment of a record to the next state.
Cur ==
  [initialized |-> initialized, global_heap_buf |-> global_heap_buf,
   error_msg |-> error_msg, heapLive |-> heapLive, badFree |-> badFree,
   engineUp |-> engineUp, pool |-> pool, liveModules |-> liveModules,
   liveInsts |-> liveInsts, misuse |-> misuse, module |-> module,
   module_inst |-> module_inst,
   stack_size_for_exec_env |-> stack_size_for_exec_env,
   error_buf |-> error_buf, last_result |-> last_result, loaded |-> loaded,
   op |-> op, calls |-> calls, ret |-> ret,
   alive |-> alive, thread_stack_size |-> thread_stack_size, liveEnvs |-> liveEnvs,
   running |-> running, exited |-> exited, pc |-> pc, ctx |-> ctx, thread |-> thread,
   func |-> func, argv |-> argv, wasmResult |-> wasmResult]

Becomes(s) ==
  /\ initialized' = s.initialized
  /\ global_heap_buf' = s.global_heap_buf
  /\ error_msg' = s.error_msg
  /\ heapLive' = s.heapLive
  /\ badFree' = s.badFree
  /\ engineUp' = s.engineUp
  /\ pool' = s.pool
  /\ liveModules' = s.liveModules
  /\ liveInsts' = s.liveInsts
  /\ misuse' = s.misuse
  /\ module' = s.module
  /\ module_inst' = s.module_inst
  /\ stack_size_for_exec_env' = s.stack_size_for_exec_env
  /\ error_buf' = s.error_buf
  /\ last_result' = s.last_result
  /\ loaded' = s.loaded
  /\ op' = s.op
  /\ calls' = s.calls
  /\ ret' = s.ret
  /\ alive' = s.alive
  /\ thread_stack_size' = s.thread_stack_size
  /\ liveEnvs' = s.liveEnvs
  /\ running' = s.running
  /\ exited' = s.exited
  /\ pc' = s.pc
  /\ ctx' = s.ctx
  /\ thread' = s.thread
  /\ func' = s.func
  /\ argv' = s.argv
  /\ wasmResult' = s.wasmResult

\* Entry of an operation: its name and arguments, and a fresh call log.
Enter(s, name, c, arg) ==
  [s EXCEPT !.op = [name |-> name, c |-> c, arg |-> arg], !.calls = <<>>, !.ret = TRUE,
            !.func = "", !.argv = NullArgv, !.wasmResult = NoValue]

\* A collaborator call: function, argument (size, address or handle; 0 if none)
\* and result (address or handle, 1/0 for a boolean, 0 for void).
Called(s, f, a, r) == [s EXCEPT !.calls = Append(@, [f |-> f, a |-> a, r |-> r])]

\* ------------------------------------------------------------ system heap
\* heap_caps_malloc / malloc: the allocator answers with `p', NULL or a free address.
sys_malloc(s, f, size, p) ==
  [Called(s, f, size, p) EXCEPT !.heapLive = IF p = NULL THEN @ ELSE @ \cup {p}]

sys_free(s, p) ==
  [Called(s, "free", p, 0) EXCEPT !.heapLive = @ \ {p},
                                  !.badFree = @ \/ (p # NULL /\ p \notin s.heapLive)]

\* ------------------------------------------------------------------ engine
wasm_runtime_full_init(s, buf, size, ok) ==
  LET t == [Called(s, "wasm_runtime_full_init", size, IF ok THEN 1 ELSE 0)
              EXCEPT !.misuse = @ \/ s.engineUp]
  IN IF ok THEN [t EXCEPT !.engineUp = TRUE, !.pool = [buf |-> buf, size |-> size]]
     ELSE t

\* Everything the engine holds lives in the pool: destroying it ends every handle.
\* A call that hands the engine a handle it does not hold (or any call but
\* full_init while it is down) is undefined in the engine.  `misuse' records
\* that it happened.  The outcomes kept are: the process stops there (a
\* behaviour may end in any state), the engine ignores the dead handle, and,
\* when the address has since been handed out again, the engine releases the
\* object that now lives there.
wasm_runtime_destroy(s) ==
  [Called(s, "wasm_runtime_destroy", 0, 0) EXCEPT
     !.misuse = @ \/ ~s.engineUp,
     !.engineUp = FALSE, !.pool = NoPool, !.liveModules = {}, !.liveInsts = {},
     !.liveEnvs = {}]

wasm_runtime_deinstantiate(s, i) ==
  [Called(s, "wasm_runtime_deinstantiate", i, 0) EXCEPT
     !.misuse = @ \/ ~s.engineUp \/ ~(\E p \in s.liveInsts : p[1] = i),
     !.liveInsts = {p \in @ : p[1] # i}]

wasm_runtime_unload(s, m) ==
  [Called(s, "wasm_runtime_unload", m, 0) EXCEPT
     !.misuse = @ \/ ~s.engineUp \/ m \notin s.liveModules
                  \/ (\E p \in s.liveInsts : p[2] = m),
     !.liveModules = @ \ {m}]

\* A handle is the engine's address of an object in its pool.  The engine's
\* allocator is first-fit: a new object gets the lowest address not in use, so
\* the address of a released object is handed out again.
FreeModHandles(s) == ModHandles \ s.liveModules
FreeInstHandles(s) == InstHandles \ {p[1] : p \in s.liveInsts}
LowestOf(S) == CHOOSE x \in S : \A y \in S : x <= y

\* wasm_runtime_load answers NULL with a diagnostic in the caller's buffer, or a
\* new compiled unit; `ok' is the engine's verdict on the bytes and its memory.
LoadAnswer(s, ok) ==
  IF ok /\ FreeModHandles(s) # {} THEN LowestOf(FreeModHandles(s)) ELSE NULL

wasm_runtime_load(s, c, m) ==
  LET t == [Called(s, "wasm_runtime_load", 0, m) EXCEPT !.misuse = @ \/ ~s.engineUp]
  IN IF m = NULL THEN [t EXCEPT !.error_buf[c] = EngineLoadError]
     ELSE [t EXCEPT !.liveModules = @ \cup {m}]

InstantiateAnswer(s, ok) ==
  IF ok /\ FreeInstHandles(s) # {} THEN LowestOf(FreeInstHandles(s)) ELSE NULL

wasm_runtime_instantiate(s, c, m, i) ==
  LET t == [Called(s, "wasm_runtime_instantiate", m, i) EXCEPT
              !.misuse = @ \/ ~s.engineUp \/ m \notin s.liveModules]
  IN IF i = NULL THEN [t EXCEPT !.error_buf[c] = EngineInstantiateError]
     ELSE [t EXCEPT !.liveInsts = @ \cup {<<i, m>>}]

\* An execution environment belongs to the instance it was created for.
FreeEnvHandles(s) == EnvHandles \ s.liveEnvs

ExecEnvAnswer(s, ok) ==
  IF ok /\ FreeEnvHandles(s) # {} THEN LowestOf(FreeEnvHandles(s)) ELSE NULL

wasm_runtime_create_exec_env(s, inst, stack, e) ==
  [Called(s, "wasm_runtime_create_exec_env", stack, e) EXCEPT
     !.misuse = @ \/ ~s.engineUp \/ ~(\E p \in s.liveInsts : p[1] = inst),
     !.liveEnvs = IF e = NULL THEN @ ELSE @ \cup {e}]

wasm_runtime_destroy_exec_env(s, e) ==
  [Called(s, "wasm_runtime_destroy_exec_env", e, 0) EXCEPT
     !.misuse = @ \/ ~s.engineUp \/ e \notin s.liveEnvs,
     !.liveEnvs = @ \ {e}]

\* The function handle of an exported name, NULL for any other name.
LookupAnswer(name) == IF name \in ExportedNames THEN 1 ELSE NULL

wasm_runtime_lookup_function(s, inst, f) ==
  [Called(s, "wasm_runtime_lookup_function", inst, f) EXCEPT
     !.misuse = @ \/ ~s.engineUp \/ ~(\E p \in s.liveInsts : p[1] = inst)]

\* The engine reads argc cells from the array and, when the function returns,
\* leaves its result in the first cell.  `argvp' says the array pointer is not
\* nullptr; the array itself is the caller's `argv'.
wasm_runtime_call_wasm(s, e, f, argc, argvp, ok, res) ==
  LET t == [Called(s, "wasm_runtime_call_wasm", argc, IF ok THEN 1 ELSE 0) EXCEPT
              !.misuse = @ \/ ~s.engineUp \/ e \notin s.liveEnvs \/ (argc > 0 /\ ~argvp)]
  IN IF ~ok THEN t
     ELSE [t EXCEPT !.wasmResult = res,
                    !.argv = IF argvp THEN [@ EXCEPT ![1] = res] ELSE @]

wasm_runtime_get_exception(s, inst, exc) ==
  [Called(s, "wasm_runtime_get_exception", inst, IF exc = NoException THEN 0 ELSE 1) EXCEPT
     !.misuse = @ \/ ~s.engineUp \/ ~(\E p \in s.liveInsts : p[1] = inst)]

\* --------------------------------------------------------------- threads
FreeThreadIds(s) == ThreadIds \ (s.running \cup s.exited)

CreateAnswer(s, ok) ==
  IF ok /\ FreeThreadIds(s) # {} THEN LowestOf(FreeThreadIds(s)) ELSE NULL

\* pthread_create: on success thread t starts in wasm_thread_wrapper.
pthread_create(s, t) ==
  [Called(s, "pthread_create", s.thread_stack_size, t) EXCEPT
     !.running = IF t = NULL THEN @ ELSE @ \cup {t}]

\* pthread_join returns once the thread's start routine has returned, and not
\* before: it has no timeout.
JoinReturns_timeout(s, t) == TRUE

JoinReturns(s, t) == t \in s.exited

pthread_join(s, t) ==
  [Called(s, "pthread_join", t, 0) EXCEPT !.exited = @ \ {t}]

\* snprintf(error_buf, sizeof(error_buf), ...): at most sizeof - 1 characters.
Snprintf_oneShorter(text) ==
  IF Len(text) > ERROR_BUF_SIZE - 2 THEN SubSeq(text, 1, ERROR_BUF_SIZE - 2) ELSE text

Snprintf(text) ==
  IF Len(text) > ERROR_BUF_SIZE - 1 THEN SubSeq(text, 1, ERROR_BUF_SIZE - 1) ELSE text

\* ------------------------------------------------------------- WamrRuntime
isInitialized(s) == s.initialized

HeapSizeTooSmall_offByOne(h) == h < WAMR_MIN_HEAP_SIZE - 1

HeapSizeTooSmall(h) == h < WAMR_MIN_HEAP_SIZE

beginAlreadyInitialized_asError(s) ==
  [s EXCEPT !.error_msg = "Runtime already initialized", !.ret = FALSE]

beginAlreadyInitialized(s) == [s EXCEPT !.ret = TRUE]

beginTooSmall(s) == [s EXCEPT !.error_msg = ErrTooSmall, !.ret = FALSE]

\* PSRAM first, internal RAM only when PSRAM gave nothing.
beginAllocate_internalAlso(s, h, spiram, internal) ==
  LET t == [sys_malloc(s, "heap_caps_malloc", h, spiram) EXCEPT !.global_heap_buf = spiram]
      u == sys_malloc(t, "malloc", h, internal)
  IN IF t.global_heap_buf = NULL THEN [u EXCEPT !.global_heap_buf = internal] ELSE u

beginAllocate(s, h, spiram, internal) ==
  LET t == [sys_malloc(s, "heap_caps_malloc", h, spiram) EXCEPT !.global_heap_buf = spiram]
  IN IF t.global_heap_buf = NULL
     THEN [sys_malloc(t, "malloc", h, internal) EXCEPT !.global_heap_buf = internal]
     ELSE t

beginAllocFailed_noReason(s) == [s EXCEPT !.ret = FALSE]

beginAllocFailed(s) == [s EXCEPT !.error_msg = ErrAllocFailed, !.ret = FALSE]

\* RuntimeInitArgs: Alloc_With_Pool over the buffer just obtained.
beginInitArgs_defaultSize(s, h) == [buf |-> s.global_heap_buf, size |-> WAMR_DEFAULT_HEAP_POOL]

beginInitArgs(s, h) == [buf |-> s.global_heap_buf, size |-> h]

beginInitFailed_leak(s) ==
  [s EXCEPT !.error_msg = ErrInitFailed, !.global_heap_buf = NULL, !.ret = FALSE]

beginInitFailed_dangling(s) ==
  [sys_free([s EXCEPT !.error_msg = ErrInitFailed], s.global_heap_buf) EXCEPT !.ret = FALSE]

beginInitFailed(s) ==
  [sys_free([s EXCEPT !.error_msg = ErrInitFailed], s.global_heap_buf)
     EXCEPT !.global_heap_buf = NULL, !.ret = FALSE]

beginSucceeded_clearsError(s) ==
  [s EXCEPT !.initialized = TRUE, !.error_msg = NoError, !.ret = TRUE]

beginSucceeded(s) == [s EXCEPT !.initialized = TRUE, !.ret = TRUE]

begin(s, h, spiram, internal, initOk) ==
  IF s.initialized THEN beginAlreadyInitialized(s)
  ELSE IF HeapSizeTooSmall(h) THEN beginTooSmall(s)
  ELSE LET a == beginAllocate(s, h, spiram, internal) IN
       IF a.global_heap_buf = NULL THEN beginAllocFailed(a)
       ELSE LET args == beginInitArgs(a, h)
                e == wasm_runtime_full_init(a, args.buf, args.size, initOk)
            IN IF ~initOk THEN beginInitFailed(e) ELSE beginSucceeded(e)

endTeardown_freeFirst(s) ==
  LET f == IF s.global_heap_buf # NULL
           THEN [sys_free(s, s.global_heap_buf) EXCEPT !.global_heap_buf = NULL]
           ELSE s
  IN [wasm_runtime_destroy(f) EXCEPT !.initialized = FALSE]

endTeardown(s) ==
  LET d == wasm_runtime_destroy(s)
      f == IF d.global_heap_buf # NULL
           THEN [sys_free(d, d.global_heap_buf) EXCEPT !.global_heap_buf = NULL]
           ELSE d
  IN [f EXCEPT !.initialized = FALSE]

end_noGuard(s) == endTeardown(s)

end(s) == IF ~s.initialized THEN s ELSE endTeardown(s)

getRuntimeError(s) == s.error_msg

\* -------------------------------------------------------------- WamrModule
unload_unitFirst(s, c) ==
  LET a == IF s.module[c] # NULL
           THEN [wasm_runtime_unload(s, s.module[c]) EXCEPT !.module[c] = NULL]
           ELSE s
      b == IF a.module_inst[c] # NULL
           THEN [wasm_runtime_deinstantiate(a, a.module_inst[c]) EXCEPT !.module_inst[c] = NULL]
           ELSE a
  IN [b EXCEPT !.loaded[c] = FALSE, !.stack_size_for_exec_env[c] = 0,
               !.error_buf[c] = EmptyBuf]

unload_keepsError(s, c) ==
  LET a == IF s.module_inst[c] # NULL
           THEN [wasm_runtime_deinstantiate(s, s.module_inst[c]) EXCEPT !.module_inst[c] = NULL]
           ELSE s
      b == IF a.module[c] # NULL
           THEN [wasm_runtime_unload(a, a.module[c]) EXCEPT !.module[c] = NULL]
           ELSE a
  IN [b EXCEPT !.loaded[c] = FALSE, !.stack_size_for_exec_env[c] = 0]

unload_keepsInstance(s, c) ==
  LET a == IF s.module_inst[c] # NULL
           THEN wasm_runtime_deinstantiate(s, s.module_inst[c])
           ELSE s
      b == IF a.module[c] # NULL
           THEN [wasm_runtime_unload(a, a.module[c]) EXCEPT !.module[c] = NULL]
           ELSE a
  IN [b EXCEPT !.loaded[c] = FALSE, !.stack_size_for_exec_env[c] = 0,
               !.error_buf[c] = EmptyBuf]

unload_keepsHint(s, c) ==
  LET a == IF s.module_inst[c] # NULL
           THEN [wasm_runtime_deinstantiate(s, s.module_inst[c]) EXCEPT !.module_inst[c] = NULL]
           ELSE s
      b == IF a.module[c] # NULL
           THEN [wasm_runtime_unload(a, a.module[c]) EXCEPT !.module[c] = NULL]
           ELSE a
  IN [b EXCEPT !.loaded[c] = FALSE, !.error_buf[c] = EmptyBuf]

unload(s, c) ==
  LET a == IF s.module_inst[c] # NULL
           THEN [wasm_runtime_deinstantiate(s, s.module_inst[c]) EXCEPT !.module_inst[c] = NULL]
           ELSE s
      b == IF a.module[c] # NULL
           THEN [wasm_runtime_unload(a, a.module[c]) EXCEPT !.module[c] = NULL]
           ELSE a
  IN [b EXCEPT !.loaded[c] = FALSE, !.stack_size_for_exec_env[c] = 0,
               !.error_buf[c] = EmptyBuf]

\* "Unload any existing module" at the head of load().
loadUnloadPrevious_skip(s, c) == s

loadUnloadPrevious_instanceOnly(s, c) ==
  IF s.module_inst[c] # NULL
  THEN [wasm_runtime_deinstantiate(s, s.module_inst[c]) EXCEPT !.module_inst[c] = NULL]
  ELSE s

loadUnloadPrevious(s, c) == unload(s, c)

loadNotInitialized_unloadFirst(s, c) ==
  [unload(s, c) EXCEPT !.error_buf[c] = ErrNotInitialized, !.ret = FALSE]

loadNotInitialized(s, c) == [s EXCEPT !.error_buf[c] = ErrNotInitialized, !.ret = FALSE]

loadCompileFailed(s, c) == [s EXCEPT !.ret = FALSE]

loadInstantiateFailed_leak(s, c) == [s EXCEPT !.module[c] = NULL, !.ret = FALSE]

loadInstantiateFailed(s, c) ==
  [wasm_runtime_unload(s, s.module[c]) EXCEPT !.module[c] = NULL, !.ret = FALSE]

loadSucceeded_dropsUnit(s, c, stack_size) ==
  [s EXCEPT !.stack_size_for_exec_env[c] = stack_size, !.loaded[c] = TRUE, !.ret = TRUE,
            !.module[c] = NULL]

loadSucceeded_flagOnly(s, c, stack_size) ==
  [s EXCEPT !.stack_size_for_exec_env[c] = stack_size, !.loaded[c] = TRUE, !.ret = TRUE,
            !.module_inst[c] = NULL]

loadSucceeded(s, c, stack_size) ==
  [s EXCEPT !.stack_size_for_exec_env[c] = stack_size, !.loaded[c] = TRUE, !.ret = TRUE]

load(s, c, bytes, stack_size, compileOk, instOk) ==
  IF ~isInitialized(s) THEN loadNotInitialized(s, c)
  ELSE LET u == loadUnloadPrevious(s, c)
           m == LoadAnswer(u, bytes # MalformedBytes /\ compileOk)
           l == [wasm_runtime_load(u, c, m) EXCEPT !.module[c] = m]
       IN IF l.module[c] = NULL THEN loadCompileFailed(l, c)
          ELSE LET i == InstantiateAnswer(l, instOk)
                   n == [wasm_runtime_instantiate(l, c, l.module[c], i)
                           EXCEPT !.module_inst[c] = i]
               IN IF n.module_inst[c] = NULL THEN loadInstantiateFailed(n, c)
                  ELSE loadSucceeded(n, c, stack_size)

setThreadStackSize_perCall(s, stack_size) == s

setThreadStackSize(s, stack_size) == [s EXCEPT !.thread_stack_size = stack_size]

isLoaded(s, c) == s.module_inst[c] # NULL
getError(s, c) == IF s.error_buf[c] # EmptyBuf THEN s.error_buf[c] ELSE NoError
getResult(s, c) == s.last_result[c]

\* WamrModule::WamrModule() and ~WamrModule().
WamrModule(s, c) ==
  [s EXCEPT !.module[c] = NULL, !.module_inst[c] = NULL,
            !.stack_size_for_exec_env[c] = 0, !.last_result[c] = 0,
            !.loaded[c] = FALSE, !.error_buf[c] = EmptyBuf, !.alive[c] = TRUE]

destroy_noUnload(s, c) == [s EXCEPT !.alive[c] = FALSE]

destroy(s, c) == [unload(s, c) EXCEPT !.alive[c] = FALSE]

\* callFunctionInternal, branch by branch.
callNotLoaded_asksEngine(s, c) ==
  [wasm_runtime_lookup_function(s, s.module_inst[c], NULL) EXCEPT
     !.error_buf[c] = Snprintf(ErrNotLoaded), !.ret = FALSE]

callNotLoaded(s, c) == [s EXCEPT !.error_buf[c] = Snprintf(ErrNotLoaded), !.ret = FALSE]

callExecEnvFailed(s, c) == [s EXCEPT !.error_buf[c] = Snprintf(ErrExecEnv), !.ret = FALSE]

NotFoundMessage(func_name) == Snprintf("Function '" \o func_name \o "' not found")

callNotFound_leak(s, c, func_name, e) ==
  [s EXCEPT !.error_buf[c] = NotFoundMessage(func_name), !.ret = FALSE]

callNotFound(s, c, func_name, e) ==
  [wasm_runtime_destroy_exec_env(s, e) EXCEPT
     !.error_buf[c] = NotFoundMessage(func_name), !.ret = FALSE]

callFailed_silent(s, c, exc) ==
  [wasm_runtime_get_exception(s, s.module_inst[c], exc) EXCEPT !.ret = FALSE]

callFailed_returnsTrue(s, c, exc) ==
  [wasm_runtime_get_exception(s, s.module_inst[c], exc) EXCEPT
     !.error_buf[c] = IF exc # NoException THEN Snprintf("Exception: " \o exc)
                      ELSE Snprintf(ErrCallFailed),
     !.ret = TRUE]

callFailed(s, c, exc) ==
  [wasm_runtime_get_exception(s, s.module_inst[c], exc) EXCEPT
     !.error_buf[c] = IF exc # NoException THEN Snprintf("Exception: " \o exc)
                      ELSE Snprintf(ErrCallFailed),
     !.ret = FALSE]

callStoreResult_never(s, c, argc, argvp) == s

callStoreResult_ignoresArgc(s, c, argc, argvp) ==
  IF argvp THEN [s EXCEPT !.last_result[c] = s.argv[1]] ELSE s

callStoreResult(s, c, argc, argvp) ==
  IF argc > 0 /\ argvp THEN [s EXCEPT !.last_result[c] = s.argv[1]] ELSE s

\* The call that leaves the execution environment alive after the engine call.
callFunctionInternal_envKept(s, c, func_name, argc, argvp, envOk, callOk, res, exc) ==
  IF ~s.loaded[c] \/ s.module_inst[c] = NULL THEN callNotLoaded(s, c)
  ELSE LET e == ExecEnvAnswer(s, envOk)
           a == wasm_runtime_create_exec_env(s, s.module_inst[c],
                                             s.stack_size_for_exec_env[c], e)
       IN IF e = NULL THEN callExecEnvFailed(a, c)
          ELSE LET f == LookupAnswer(func_name)
                   b == wasm_runtime_lookup_function(a, a.module_inst[c], f)
               IN IF f = NULL THEN callNotFound(b, c, func_name, e)
                  ELSE LET d == wasm_runtime_call_wasm(b, e, f, argc, argvp, callOk, res)
                       IN IF ~callOk THEN callFailed(d, c, exc)
                          ELSE [callStoreResult(d, c, argc, argvp) EXCEPT !.ret = TRUE]

\* The call with the lookup made before the execution environment is created.
callFunctionInternal_lookupFirst(s, c, func_name, argc, argvp, envOk, callOk, res, exc) ==
  IF ~s.loaded[c] \/ s.module_inst[c] = NULL THEN callNotLoaded(s, c)
  ELSE LET f == LookupAnswer(func_name)
           b == wasm_runtime_lookup_function(s, s.module_inst[c], f)
       IN IF f = NULL
          THEN [b EXCEPT !.error_buf[c] = NotFoundMessage(func_name), !.ret = FALSE]
          ELSE LET e == ExecEnvAnswer(b, envOk)
                   a == wasm_runtime_create_exec_env(b, b.module_inst[c],
                                                     b.stack_size_for_exec_env[c], e)
               IN IF e = NULL THEN callExecEnvFailed(a, c)
                  ELSE LET d == wasm_runtime_call_wasm(a, e, f, argc, argvp, callOk, res)
                           x == wasm_runtime_destroy_exec_env(d, e)
                       IN IF ~callOk THEN callFailed(x, c, exc)
                          ELSE [callStoreResult(x, c, argc, argvp) EXCEPT !.ret = TRUE]

callFunctionInternal(s, c, func_name, argc, argvp, envOk, callOk, res, exc) ==
  IF ~s.loaded[c] \/ s.module_inst[c] = NULL THEN callNotLoaded(s, c)
  ELSE LET e == ExecEnvAnswer(s, envOk)
           a == wasm_runtime_create_exec_env(s, s.module_inst[c],
                                             s.stack_size_for_exec_env[c], e)
       IN IF e = NULL THEN callExecEnvFailed(a, c)
          ELSE LET f == LookupAnswer(func_name)
                   b == wasm_runtime_lookup_function(a, a.module_inst[c], f)
               IN IF f = NULL THEN callNotFound(b, c, func_name, e)
                  ELSE LET d == wasm_runtime_call_wasm(b, e, f, argc, argvp, callOk, res)
                           x == wasm_runtime_destroy_exec_env(d, e)
                       IN IF ~callOk THEN callFailed(x, c, exc)
                          ELSE [callStoreResult(x, c, argc, argvp) EXCEPT !.ret = TRUE]

\* callFunctionRaw runs the call on the thread of the caller, which the code
\* requires to be a pthread.
callFunctionRaw(s, c, func_name, argc, argvp, envOk, callOk, res, exc) ==
  callFunctionInternal(s, c, func_name, argc, argvp, envOk, callOk, res, exc)

\* The start routine of the worker thread: one call, its verdict left in the context.
wasm_thread_wrapper_dropsVerdict(s, t, envOk, callOk, res, exc) ==
  LET r == callFunctionInternal(s, s.ctx.module, s.ctx.func_name, s.ctx.argc,
                                s.ctx.argv, envOk, callOk, res, exc)
  IN [r EXCEPT !.ret = s.ret, !.running = @ \ {t}, !.exited = @ \cup {t}]

wasm_thread_wrapper(s, t, envOk, callOk, res, exc) ==
  LET r == callFunctionInternal(s, s.ctx.module, s.ctx.func_name, s.ctx.argc,
                                s.ctx.argv, envOk, callOk, res, exc)
  IN [r EXCEPT !.ctx.success = r.ret, !.ret = s.ret,
               !.running = @ \ {t}, !.exited = @ \cup {t}]

\* callFunction up to pthread_join; the three set-up failures return at once.
callAttrInitFailed(s, c) ==
  [s EXCEPT !.error_buf[c] = Snprintf(ErrAttrInit), !.ret = FALSE, !.ctx = NoCtx]

callSetStackFailed(s, c) ==
  [Called(s, "pthread_attr_destroy", 0, 0) EXCEPT
     !.error_buf[c] = Snprintf(ErrSetStack), !.ret = FALSE, !.ctx = NoCtx]

callCreateFailed_noError(s, c) ==
  [Called(s, "pthread_attr_destroy", 0, 0) EXCEPT !.ret = FALSE, !.ctx = NoCtx]

callCreateFailed(s, c) ==
  [Called(s, "pthread_attr_destroy", 0, 0) EXCEPT
     !.error_buf[c] = Snprintf(ErrCreateThread), !.ret = FALSE, !.ctx = NoCtx]

\* The stack size callFunction asks for: the static member, the same for
\* every controller.  In the variant only the first controller sees the
\* setting and the others keep the initial value.
threadStackSizeFor_firstOnly(s, c) ==
  IF c = 1 THEN s.thread_stack_size ELSE WAMR_DEFAULT_THREAD_STACK

threadStackSizeFor(s, c) == s.thread_stack_size

callWaitForThread_detached(s, t) ==
  [s EXCEPT !.thread = t, !.ret = s.ctx.success]

callWaitForThread(s, t) == [s EXCEPT !.thread = t, !.pc = "joining"]

callFunction(s, c, func_name, argc, argvp, attrOk, stackOk, createOk) ==
  LET x == [s EXCEPT !.ctx = [module |-> c, func_name |-> func_name, argc |-> argc,
                              argv |-> argvp, success |-> FALSE]]
      a == Called(x, "pthread_attr_init", 0, IF attrOk THEN 0 ELSE 1)
  IN IF ~attrOk THEN callAttrInitFailed(a, c)
     ELSE LET b == Called(a, "pthread_attr_setstacksize", threadStackSizeFor(a, c),
                          IF stackOk THEN 0 ELSE 1)
          IN IF ~stackOk THEN callSetStackFailed(b, c)
             ELSE LET d == Called(b, "pthread_attr_setdetachstate", 0, 0)
                      t == CreateAnswer(d, createOk)
                      e == pthread_create(d, t)
                  IN IF t = NULL THEN callCreateFailed(e, c)
                     ELSE callWaitForThread(e, t)

\* The return of callFunction that does not read the flag of the worker.
callFunctionJoined_ignoresFlag(s) ==
  LET j == pthread_join(s, s.thread)
      d == Called(j, "pthread_attr_destroy", 0, 0)
  IN [d EXCEPT !.ret = TRUE, !.ctx = NoCtx, !.thread = NULL, !.pc = "idle"]

\* callFunction from pthread_join on: the worker has finished.
callFunctionJoined(s) ==
  LET j == pthread_join(s, s.thread)
      d == Called(j, "pthread_attr_destroy", 0, 0)
  IN [d EXCEPT !.ret = s.ctx.success, !.ctx = NoCtx, !.thread = NULL, !.pc = "idle"]

\* ----------------------------------------------------------------- actions
Init ==
  /\ initialized = FALSE
  /\ global_heap_buf = NULL
  /\ error_msg = NoError
  /\ heapLive = {}
  /\ badFree = FALSE
  /\ engineUp = FALSE
  /\ pool = NoPool
  /\ liveModules = {}
  /\ liveInsts = {}
  /\ misuse = FALSE
  /\ module = [c \in Controllers |-> NULL]
  /\ module_inst = [c \in Controllers |-> NULL]
  /\ stack_size_for_exec_env = [c \in Controllers |-> 0]
  /\ error_buf = [c \in Controllers |-> EmptyBuf]
  /\ last_result = [c \in Controllers |-> 0]
  /\ loaded = [c \in Controllers |-> FALSE]
  /\ op = [name |-> "none", c |-> 0, arg |-> 0]
  /\ calls = <<>>
  /\ ret = TRUE
  /\ alive = [c \in Controllers |-> TRUE]
  /\ thread_stack_size = WAMR_DEFAULT_THREAD_STACK
  /\ liveEnvs = {}
  /\ running = {}
  /\ exited = {}
  /\ pc = "idle"
  /\ ctx = NoCtx
  /\ thread = NULL
  /\ func = ""
  /\ argv = NullArgv
  /\ wasmResult = NoValue

\* WamrRuntime::begin(h); the allocators answer spiram/internal, the engine initOk.
\* printMemoryUsage() on the success path only writes to Serial and is left out.
\* A collaborator that is not consulted gives its default answer (NULL, FALSE).
Begin ==
  \E h \in HeapSizes, initOk \in BOOLEAN,
     spiram \in {NULL} \cup (SpiramAddrs \ heapLive),
     internal \in {NULL} \cup (InternalAddrs \ heapLive) :
    /\ (initialized \/ HeapSizeTooSmall(h)) => (spiram = NULL /\ internal = NULL)
    /\ spiram # NULL => internal = NULL
    /\ (spiram = NULL /\ internal = NULL) => ~initOk
    /\ Becomes(begin(Enter(Cur, "begin", 0, h), h, spiram, internal, initOk))

End == Becomes(end(Enter(Cur, "end", 0, 0)))

\* WamrModule::load on controller c; the engine answers compileOk and instOk.
Load ==
  \E c \in Controllers, bytes \in WasmBytes, stack_size \in StackSizes,
     compileOk \in BOOLEAN, instOk \in BOOLEAN :
    /\ (~initialized \/ bytes = MalformedBytes) => ~compileOk
    /\ ~compileOk => ~instOk
    /\ Becomes(load(Enter(Cur, "load", c, stack_size), c, bytes, stack_size, compileOk, instOk))

Unload == \E c \in Controllers : Becomes(unload(Enter(Cur, "unload", c, 0), c))

Next == Begin \/ End \/ Load \/ Unload

Spec == Init /\ [][Next]_vars

\* --------------------------------------------------- the execution bridge
\* A second specification: one controller is loaded, called, unloaded,
\* destroyed and constructed again on the primary thread, and the worker
\* thread of callFunction takes its own steps.  While the primary thread is
\* in pthread_join it makes no other call.
Caller == 1
Idle == pc = "idle"

ExecBegin ==
  \E initOk \in BOOLEAN, spiram \in {NULL} \cup (SpiramAddrs \ heapLive) :
    /\ Idle
    /\ (initialized \/ spiram = NULL) => ~initOk
    /\ initialized => spiram = NULL
    /\ Becomes(begin(Enter(Cur, "begin", 0, WAMR_DEFAULT_HEAP_POOL),
                     WAMR_DEFAULT_HEAP_POOL, spiram, NULL, initOk))

ExecEnd == Idle /\ Becomes(end(Enter(Cur, "end", 0, 0)))

ExecLoad ==
  \E bytes \in WasmBytes, stack_size \in StackSizes,
     compileOk \in BOOLEAN, instOk \in BOOLEAN :
    /\ Idle /\ alive[Caller]
    /\ (~initialized \/ bytes = MalformedBytes) => ~compileOk
    /\ ~compileOk => ~instOk
    /\ Becomes(load(Enter(Cur, "load", Caller, stack_size), Caller, bytes, stack_size,
                    compileOk, instOk))

ExecUnload == Idle /\ alive[Caller] /\ Becomes(unload(Enter(Cur, "unload", Caller, 0), Caller))

Construct == Idle /\ ~alive[Caller] /\ Becomes(WamrModule(Enter(Cur, "WamrModule", Caller, 0), Caller))

Destruct == Idle /\ alive[Caller] /\ Becomes(destroy(Enter(Cur, "~WamrModule", Caller, 0), Caller))

\* The arguments of a call as the caller passes them.
WithArgs(s, func_name, arr) == [s EXCEPT !.func = func_name, !.argv = arr]

\* The engine is asked only on the path that reaches it.
EngineAnswers(c, func_name, envOk, callOk, res, exc) ==
  /\ (~loaded[c] \/ module_inst[c] = NULL) => ~envOk
  /\ (~envOk \/ LookupAnswer(func_name) = NULL) => (~callOk /\ exc = NoException)
  /\ callOk => exc = NoException
  /\ ~callOk => res = LowestOf(ResultValues)

CallFunction ==
  \E a \in CallShapes, attrOk \in BOOLEAN, stackOk \in BOOLEAN, createOk \in BOOLEAN :
    /\ Idle /\ alive[Caller]
    /\ ~attrOk => ~stackOk
    /\ ~stackOk => ~createOk
    /\ Becomes(callFunction(WithArgs(Enter(Cur, "callFunction", Caller, a.argc), a.name, a.argv),
                            Caller, a.name, a.argc, a.argv # NullArgv,
                            attrOk, stackOk, createOk))

WorkerRun ==
  \E t \in running, envOk \in BOOLEAN, callOk \in BOOLEAN,
     res \in ResultValues, exc \in Exceptions :
    /\ ctx.module # 0
    /\ EngineAnswers(ctx.module, ctx.func_name, envOk, callOk, res, exc)
    /\ Becomes(wasm_thread_wrapper(Cur, t, envOk, callOk, res, exc))

CallJoin == pc = "joining" /\ JoinReturns(Cur, thread) /\ Becomes(callFunctionJoined(Cur))

CallFunctionRaw ==
  \E a \in CallShapes, envOk \in BOOLEAN, callOk \in BOOLEAN,
     res \in ResultValues, exc \in Exceptions :
    /\ Idle /\ alive[Caller]
    /\ EngineAnswers(Caller, a.name, envOk, callOk, res, exc)
    /\ Becomes(callFunctionRaw(WithArgs(Enter(Cur, "callFunctionRaw", Caller, a.argc), a.name, a.argv),
                               Caller, a.name, a.argc, a.argv # NullArgv,
                               envOk, callOk, res, exc))

ExecNext ==
  \/ ExecBegin \/ ExecEnd \/ ExecLoad \/ ExecUnload \/ Construct \/ Destruct
  \/ CallFunction \/ WorkerRun \/ CallJoin \/ CallFunctionRaw

SpecExec == Init /\ [][ExecNext]_vars

\* The execution bridge under fair scheduling of the primary thread: a join
\* that can return does return.  Nothing is assumed of the worker: the engine
\* call it makes may never return.
SpecLive == SpecExec /\ WF_vars(CallJoin)

\* A third specification: the program of memory_test, which unloads every
\* controller before it shuts the runtime down.
EveryControllerUnloaded == \A c \in Controllers : module[c] = NULL /\ module_inst[c] = NULL

TidyEnd == Idle /\ EveryControllerUnloaded /\ Becomes(end(Enter(Cur, "end", 0, 0)))

TidyNext ==
  \/ ExecBegin \/ TidyEnd \/ ExecLoad \/ ExecUnload \/ Construct \/ Destruct
  \/ CallFunction \/ WorkerRun \/ CallJoin \/ CallFunctionRaw

SpecTidy == Init /\ [][TidyNext]_vars

\* A program with two controllers that share the one runtime and the one
\* thread stack size.
PairControllers == {1, 2}
ValidBytes == LowestOf(WasmBytes \ {MalformedBytes})

InitPair ==
  /\ initialized = FALSE
  /\ global_heap_buf = NULL
  /\ error_msg = NoError
  /\ heapLive = {}
  /\ badFree = FALSE
  /\ engineUp = FALSE
  /\ pool = NoPool
  /\ liveModules = {}
  /\ liveInsts = {}
  /\ misuse = FALSE
  /\ module = [c \in PairControllers |-> NULL]
  /\ module_inst = [c \in PairControllers |-> NULL]
  /\ stack_size_for_exec_env = [c \in PairControllers |-> 0]
  /\ error_buf = [c \in PairControllers |-> EmptyBuf]
  /\ last_result = [c \in PairControllers |-> 0]
  /\ loaded = [c \in PairControllers |-> FALSE]
  /\ op = [name |-> "none", c |-> 0, arg |-> 0]
  /\ calls = <<>>
  /\ ret = TRUE
  /\ alive = [c \in PairControllers |-> TRUE]
  /\ thread_stack_size = WAMR_DEFAULT_THREAD_STACK
  /\ liveEnvs = {}
  /\ running = {}
  /\ exited = {}
  /\ pc = "idle"
  /\ ctx = NoCtx
  /\ thread = NULL
  /\ func = ""
  /\ argv = NullArgv
  /\ wasmResult = NoValue

PairLoad ==
  \E c \in PairControllers, compileOk \in BOOLEAN, instOk \in BOOLEAN :
    /\ Idle
    /\ ~initialized => ~compileOk
    /\ ~compileOk => ~instOk
    /\ Becomes(load(Enter(Cur, "load", c, WAMR_DEFAULT_STACK_SIZE), c, ValidBytes,
                    WAMR_DEFAULT_STACK_SIZE, compileOk, instOk))

\* A fourth specification, for the thread stack size: either of the two
\* controllers calls add(42, 58), safely or raw, and setThreadStackSize is
\* called between calls or, by another task, while the primary thread waits
\* for a worker.
ThreadStackSizes == {WAMR_DEFAULT_THREAD_STACK, 64 * 1024}
AddShape == [name |-> "add", argc |-> 2, argv |-> <<42, 58>>]

SetThreadStackSize ==
  \E stack_size \in ThreadStackSizes :
    /\ Idle
    /\ Becomes(setThreadStackSize(Enter(Cur, "setThreadStackSize", 0, stack_size), stack_size))

\* The same call made by another task while the primary thread waits in
\* pthread_join; the record of the call in progress is left as it is.
SetThreadStackSizeElsewhere ==
  \E stack_size \in ThreadStackSizes :
    /\ pc = "joining"
    /\ Becomes(setThreadStackSize(Cur, stack_size))

\* load() on either controller; the engine accepts the module whenever the
\* runtime is initialized.
StackLoad ==
  \E c \in PairControllers :
    /\ Idle /\ alive[c]
    /\ Becomes(load(Enter(Cur, "load", c, WAMR_DEFAULT_STACK_SIZE), c, ValidBytes,
                    WAMR_DEFAULT_STACK_SIZE, initialized, initialized))

StackCall ==
  \E c \in PairControllers, stackOk \in BOOLEAN, createOk \in BOOLEAN :
    /\ Idle /\ alive[c]
    /\ ~stackOk => ~createOk
    /\ Becomes(callFunction(WithArgs(Enter(Cur, "callFunction", c, AddShape.argc),
                                     AddShape.name, AddShape.argv),
                            c, AddShape.name, AddShape.argc, TRUE, TRUE, stackOk, createOk))

StackCallRaw ==
  \E c \in PairControllers, envOk \in BOOLEAN, callOk \in BOOLEAN,
     res \in ResultValues, exc \in Exceptions :
    /\ Idle /\ alive[c]
    /\ EngineAnswers(c, AddShape.name, envOk, callOk, res, exc)
    /\ Becomes(callFunctionRaw(WithArgs(Enter(Cur, "callFunctionRaw", c, AddShape.argc),
                                        AddShape.name, AddShape.argv),
                               c, AddShape.name, AddShape.argc, TRUE, envOk, callOk, res, exc))

StackNext ==
  \/ ExecBegin \/ StackLoad \/ SetThreadStackSize \/ SetThreadStackSizeElsewhere
  \/ StackCall \/ WorkerRun \/ CallJoin \/ StackCallRaw

SpecStack == InitPair /\ [][StackNext]_vars

\* ------------------------------------------------------------- properties
\* Reading the call log of the operation that has just run.
CallsOf(cs, f) == {k \in 1..Len(cs) : cs[k].f = f}
Made(cs, f) == CallsOf(cs, f) # {}
Answered(cs, f, r) == \E k \in CallsOf(cs, f) : cs[k].r = r
BothAllocationsFailed(cs) ==
  Answered(cs, "heap_caps_malloc", NULL) /\ Answered(cs, "malloc", NULL)
EngineInitFailed(cs) == Answered(cs, "wasm_runtime_full_init", 0)
EngineInitSucceeded(cs) == Answered(cs, "wasm_runtime_full_init", 1)
AllocatedIn(cs) ==
  {cs[k].r : k \in CallsOf(cs, "heap_caps_malloc") \cup CallsOf(cs, "malloc")} \ {NULL}
FreedIn(cs) == {cs[k].a : k \in CallsOf(cs, "free")}
RuntimeState == <<initialized, global_heap_buf, error_msg>>
HeapState == <<heapLive, badFree>>
EngineState == <<engineUp, pool, liveModules, liveInsts, misuse>>
ControllerHandles == <<module, module_inst, loaded, stack_size_for_exec_env, last_result>>

\* C1: at every operation boundary the runtime owns exactly one live heap
\* buffer, the one global_heap_buf names, when it is initialized, and no buffer
\* when it is not; initialized holds exactly when global_heap_buf is not null.
C1_OneBufferIffInitialized ==
  /\ initialized <=> global_heap_buf # NULL
  /\ heapLive = IF initialized THEN {global_heap_buf} ELSE {}
  /\ Cardinality(heapLive) <= 1
  /\ ~badFree

\* A successful begin() that followed one whose engine initialisation failed.
C1_Witness ==
  /\ op.name = "begin" /\ ret /\ EngineInitSucceeded(calls)
  /\ error_msg = ErrInitFailed
  /\ initialized /\ heapLive = {global_heap_buf}

\* C2: begin(h) on an initialized runtime returns true, calls neither the
\* allocator nor the engine and changes nothing; the end() that follows frees
\* the one buffer with a single free and leaves the heap empty.
C2_BeginIdempotent ==
  [][/\ (op'.name = "begin" /\ initialized) =>
          /\ ret' = TRUE /\ calls' = <<>>
          /\ UNCHANGED <<RuntimeState, HeapState, EngineState>>
     /\ (op'.name = "end" /\ initialized) =>
          /\ Cardinality(CallsOf(calls', "free")) = 1
          /\ FreedIn(calls') = {global_heap_buf}
          /\ heapLive' = {} /\ ~badFree']_vars

\* begin(h) has just returned as a no-op, with a size other than the pool's.
C2_Witness ==
  /\ op.name = "begin" /\ initialized /\ ret /\ calls = <<>>
  /\ op.arg # pool.size /\ heapLive = {global_heap_buf}

\* C3 as stated: begin(h) with h below the minimum fails with the
\* size-too-small reason and touches nothing, in every runtime state.
C3_Original ==
  [][(op'.name = "begin" /\ op'.arg < WAMR_MIN_HEAP_SIZE) =>
       /\ ret' = FALSE /\ error_msg' = ErrTooSmall /\ calls' = <<>>
       /\ UNCHANGED <<initialized, global_heap_buf, HeapState, EngineState>>]_vars

\* C3 (amended): begin(h) with h below the minimum on a runtime that is not
\* initialized fails with the size-too-small reason, calls neither allocator
\* nor engine and leaves initialized and the buffer unchanged; on an
\* initialized runtime it returns true, also without touching anything.
C3_TooSmallWhenNotInitialized ==
  [][(op'.name = "begin" /\ op'.arg < WAMR_MIN_HEAP_SIZE) =>
       /\ calls' = <<>>
       /\ UNCHANGED <<initialized, global_heap_buf, HeapState, EngineState>>
       /\ ~initialized => (ret' = FALSE /\ error_msg' = ErrTooSmall)
       /\ initialized => (ret' = TRUE /\ error_msg' = error_msg)]_vars

\* begin(h) with the largest size below the minimum has just failed.
C3_Witness ==
  /\ op.name = "begin" /\ op.arg = WAMR_MIN_HEAP_SIZE - 1
  /\ ret = FALSE /\ error_msg = ErrTooSmall /\ calls = <<>> /\ ~initialized

\* C4: when both the PSRAM and the internal-RAM allocation fail, begin()
\* returns false with the allocation-failure reason, never calls engine init
\* and leaves the runtime not initialized with no buffer held.
C4_AllocationFailure ==
  [][(op'.name = "begin" /\ BothAllocationsFailed(calls')) =>
       /\ ret' = FALSE /\ error_msg' = ErrAllocFailed
       /\ ~Made(calls', "wasm_runtime_full_init")
       /\ ~initialized' /\ global_heap_buf' = NULL /\ heapLive' = {}
       /\ UNCHANGED EngineState]_vars

\* Both allocations have just failed for a begin() with a valid size.
C4_Witness ==
  /\ op.name = "begin" /\ BothAllocationsFailed(calls) /\ ret = FALSE
  /\ error_msg = ErrAllocFailed /\ op.arg >= WAMR_MIN_HEAP_SIZE

\* C5: when the buffer is allocated and engine initialisation fails, begin()
\* returns false with the engine-init reason, frees the buffer it allocated in
\* that call with exactly one free, and ends with global_heap_buf null,
\* initialized false, the heap empty and the engine down.
C5_EngineInitFailure ==
  [][(op'.name = "begin" /\ EngineInitFailed(calls')) =>
       /\ ret' = FALSE /\ error_msg' = ErrInitFailed
       /\ Cardinality(AllocatedIn(calls')) = 1
       /\ Cardinality(CallsOf(calls', "free")) = 1
       /\ FreedIn(calls') = AllocatedIn(calls')
       /\ ~badFree' /\ heapLive' = {}
       /\ global_heap_buf' = NULL /\ ~initialized' /\ ~engineUp']_vars

\* Engine initialisation has just failed on a buffer taken from internal RAM.
C5_Witness ==
  /\ op.name = "begin" /\ EngineInitFailed(calls) /\ ret = FALSE
  /\ AllocatedIn(calls) \subseteq InternalAddrs /\ AllocatedIn(calls) # {}
  /\ global_heap_buf = NULL /\ heapLive = {}

\* C6: end() on a runtime that is not initialized makes no call and changes
\* no state.
C6_EndNoOp ==
  [][(op'.name = "end" /\ ~initialized) =>
       /\ calls' = <<>>
       /\ UNCHANGED <<RuntimeState, HeapState, EngineState, ControllerHandles, error_buf>>]_vars

\* end() has just returned as a no-op on a runtime whose begin() had failed.
C6_Witness ==
  /\ op.name = "end" /\ calls = <<>> /\ ~initialized /\ error_msg = ErrInitFailed

\* C7: engine initialisation succeeds only while the engine is down and only
\* in begin(); the engine is destroyed only while it is up, only by end() and
\* once per end(); a begin() that initialises returns true and an end() on an
\* initialized runtime destroys; end() destroys the engine before it frees
\* the buffer.
C7_InitDestroyAlternate ==
  [][/\ EngineInitSucceeded(calls') =>
          /\ op'.name = "begin" /\ ret' = TRUE
          /\ ~engineUp /\ engineUp' /\ ~Made(calls', "wasm_runtime_destroy")
          /\ Cardinality(CallsOf(calls', "wasm_runtime_full_init")) = 1
     /\ Made(calls', "wasm_runtime_destroy") =>
          /\ op'.name = "end"
          /\ engineUp /\ ~engineUp' /\ ~Made(calls', "wasm_runtime_full_init")
          /\ Cardinality(CallsOf(calls', "wasm_runtime_destroy")) = 1
          /\ \A d \in CallsOf(calls', "wasm_runtime_destroy") :
               \A f \in CallsOf(calls', "free") : d < f
     /\ (op'.name = "begin" /\ ~initialized /\ ret' = TRUE) => EngineInitSucceeded(calls')
     /\ (op'.name = "end" /\ initialized) => Made(calls', "wasm_runtime_destroy")
     /\ engineUp' # engineUp =>
          (EngineInitSucceeded(calls') \/ Made(calls', "wasm_runtime_destroy"))]_vars

\* end() has just destroyed the engine and then freed the buffer.
C7_Witness ==
  /\ op.name = "end" /\ Len(calls) = 2
  /\ calls[1].f = "wasm_runtime_destroy" /\ calls[2].f = "free"
  /\ ~engineUp /\ ~initialized

\* C8: begin(h) with a valid size on a runtime that is not initialized (after
\* end() in particular) asks the allocator for h bytes and, given a buffer,
\* initialises the engine with that buffer and size h, which is the pool the
\* engine holds when begin() returns true; begin() on an initialized runtime
\* leaves the engine's pool as it is.
C8_Cycle ==
  [][/\ (op'.name = "begin" /\ ~initialized /\ op'.arg >= WAMR_MIN_HEAP_SIZE) =>
          /\ Made(calls', "heap_caps_malloc")
          /\ \A k \in CallsOf(calls', "heap_caps_malloc") \cup CallsOf(calls', "malloc")
                      \cup CallsOf(calls', "wasm_runtime_full_init") : calls'[k].a = op'.arg
          /\ AllocatedIn(calls') # {} => Made(calls', "wasm_runtime_full_init")
          /\ ret' = TRUE =>
               /\ initialized'
               /\ pool' = [buf |-> global_heap_buf', size |-> op'.arg]
               /\ {global_heap_buf'} = AllocatedIn(calls')
     /\ (op'.name = "begin" /\ initialized) =>
          /\ pool' = pool /\ global_heap_buf' = global_heap_buf /\ initialized']_vars

\* A begin() of a second cycle has succeeded: a controller still carries the
\* unit of the engine that the end() in between destroyed.
C8_Witness ==
  /\ op.name = "begin" /\ ret /\ EngineInitSucceeded(calls)
  /\ initialized /\ pool.size = op.arg /\ pool.size = WAMR_MIN_HEAP_SIZE
  /\ liveModules = {} /\ \E c \in Controllers : module[c] # NULL

\* The reason begin() gives for a failure, read off the calls it made.
FailureReason(cs) ==
  IF EngineInitFailed(cs) THEN ErrInitFailed
  ELSE IF BothAllocationsFailed(cs) THEN ErrAllocFailed
  ELSE ErrTooSmall

\* C9: WamrRuntime::getError() is null at start, changes only in a begin()
\* that returns false, and after such a begin() is the reason of that failure.
C9_RuntimeErrorPersists ==
  /\ getRuntimeError(Cur) = NoError
  /\ [][/\ error_msg' # error_msg => (op'.name = "begin" /\ ret' = FALSE)
        /\ (op'.name = "begin" /\ ret' = FALSE) => error_msg' = FailureReason(calls')]_vars

\* A successful begin() and then an end() have left an earlier failure reason.
C9_Witness ==
  /\ op.name = "end" /\ Made(calls, "wasm_runtime_destroy")
  /\ getRuntimeError(Cur) = ErrAllocFailed

\* C10: load() on a runtime that is not initialized returns false with the
\* runtime-not-initialized error, makes no call, and leaves every controller's
\* compiled unit, instance, loaded flag, stack hint and last result as they were.
C10_LoadNotInitialized ==
  [][(op'.name = "load" /\ ~initialized) =>
       /\ ret' = FALSE /\ error_buf'[op'.c] = ErrNotInitialized
       /\ calls' = <<>>
       /\ UNCHANGED <<ControllerHandles, RuntimeState, HeapState, EngineState>>]_vars

\* load() has just been refused on a controller that still holds the handles
\* of a module loaded before end().
C10_Witness ==
  /\ op.name = "load" /\ ret = FALSE /\ ~initialized /\ calls = <<>>
  /\ error_buf[op.c] = ErrNotInitialized
  /\ loaded[op.c] /\ module_inst[op.c] # NULL /\ module[op.c] # NULL

\* Positions in a call log.
FirstCall(cs, f) == LowestOf(CallsOf(cs, f))
LoadedUnit(cs) == cs[FirstCall(cs, "wasm_runtime_load")].r
HeldNothing(c) == module[c] = NULL /\ module_inst[c] = NULL /\ ~loaded[c]

\* C11: when the engine rejects the bytes at compile time, load() returns
\* false, getError() is the engine's diagnostic, isLoaded() is false and the
\* controller holds neither unit nor instance, whatever it held before; what
\* it held before has been released in the engine.
C11_CompileFailure ==
  [][(op'.name = "load" /\ Answered(calls', "wasm_runtime_load", NULL)) =>
       /\ ret' = FALSE
       /\ error_buf'[op'.c] = EngineLoadError
       /\ module_inst'[op'.c] = NULL /\ module'[op'.c] = NULL /\ ~loaded'[op'.c]
       /\ ~Made(calls', "wasm_runtime_instantiate")
       /\ liveModules' = liveModules \ {module[op'.c]}
       /\ liveInsts' = {p \in liveInsts : p[1] # module_inst[op'.c]}]_vars

\* A load() on a loaded controller has just failed at compile time.
C11_Witness ==
  /\ op.name = "load" /\ ret = FALSE /\ Answered(calls, "wasm_runtime_load", NULL)
  /\ Made(calls, "wasm_runtime_deinstantiate") /\ Made(calls, "wasm_runtime_unload")
  /\ error_buf[op.c] = EngineLoadError /\ HeldNothing(op.c) /\ ~misuse

\* C12: when instantiation fails, load() returns false with the engine's
\* diagnostic, the unit compiled in that call is unloaded by exactly one call
\* made after it was compiled and is no longer live, and the controller ends
\* not loaded with no handle.
C12_InstantiateFailure ==
  [][(op'.name = "load" /\ Answered(calls', "wasm_runtime_instantiate", NULL)) =>
       /\ ret' = FALSE
       /\ error_buf'[op'.c] = EngineInstantiateError
       /\ LoadedUnit(calls') # NULL
       /\ Cardinality({k \in CallsOf(calls', "wasm_runtime_unload") :
                         /\ k > FirstCall(calls', "wasm_runtime_load")
                         /\ calls'[k].a = LoadedUnit(calls')}) = 1
       /\ LoadedUnit(calls') \notin liveModules'
       /\ module_inst'[op'.c] = NULL /\ module'[op'.c] = NULL /\ ~loaded'[op'.c]]_vars

\* Instantiation has just failed in a load() that first released a previous pair.
C12_Witness ==
  /\ op.name = "load" /\ ret = FALSE /\ Answered(calls, "wasm_runtime_instantiate", NULL)
  /\ Len(calls) = 5 /\ calls[5].f = "wasm_runtime_unload" /\ calls[5].a = calls[3].r
  /\ HeldNothing(op.c) /\ liveModules = {} /\ ~misuse

\* C13: a load() that reaches the engine first deinstantiates the instance
\* and unloads the unit the controller held, before it asks the engine to
\* compile; after a successful load the engine holds what it held before,
\* less the controller's previous pair, plus the new pair, which is the pair
\* the controller now names.
C13_OnePairPerController ==
  [][(op'.name = "load" /\ initialized) =>
       /\ Made(calls', "wasm_runtime_load")
       /\ module_inst[op'.c] # NULL =>
            \E k \in CallsOf(calls', "wasm_runtime_deinstantiate") :
               calls'[k].a = module_inst[op'.c] /\ k < FirstCall(calls', "wasm_runtime_load")
       /\ module[op'.c] # NULL =>
            \E k \in CallsOf(calls', "wasm_runtime_unload") :
               calls'[k].a = module[op'.c] /\ k < FirstCall(calls', "wasm_runtime_load")
       /\ ret' = TRUE =>
            /\ module'[op'.c] # NULL /\ module_inst'[op'.c] # NULL
            /\ liveModules' = (liveModules \ {module[op'.c]}) \cup {module'[op'.c]}
            /\ liveInsts' = {p \in liveInsts : p[1] # module_inst[op'.c]}
                              \cup {<<module_inst'[op'.c], module'[op'.c]>>}]_vars

\* The second of two successful loads on one controller has just returned.
C13_Witness ==
  /\ op.name = "load" /\ ret /\ ~misuse
  /\ Made(calls, "wasm_runtime_deinstantiate") /\ Made(calls, "wasm_runtime_unload")
  /\ \A c \in Controllers \ {op.c} : module[c] = NULL
  /\ liveModules = {module[op.c]} /\ liveInsts = {<<module_inst[op.c], module[op.c]>>}

Unloaded(c) ==
  /\ module_inst[c] = NULL /\ module[c] = NULL /\ ~loaded[c]
  /\ error_buf[c] = EmptyBuf /\ stack_size_for_exec_env[c] = 0

\* C14: unload() always ends with no instance, no unit, loaded false, an
\* empty error buffer and stack hint 0; issued in that state it makes no call
\* and changes nothing.
C14_UnloadIdempotent ==
  [][op'.name = "unload" =>
       /\ module_inst'[op'.c] = NULL /\ module'[op'.c] = NULL /\ ~loaded'[op'.c]
       /\ error_buf'[op'.c] = EmptyBuf /\ stack_size_for_exec_env'[op'.c] = 0
       /\ Unloaded(op'.c) =>
            /\ calls' = <<>>
            /\ UNCHANGED <<ControllerHandles, error_buf, RuntimeState, HeapState, EngineState>>]_vars

\* unload() has just released a loaded module.
C14_Witness ==
  /\ op.name = "unload" /\ Unloaded(op.c) /\ ~misuse /\ Len(calls) = 2
  /\ calls[1].f = "wasm_runtime_deinstantiate" /\ calls[2].f = "wasm_runtime_unload"

\* The release calls unload() makes for a held instance and a held unit.
ReleaseCalls(inst, unit) ==
  (IF inst # NULL THEN <<[f |-> "wasm_runtime_deinstantiate", a |-> inst, r |-> 0]>> ELSE <<>>)
  \o (IF unit # NULL THEN <<[f |-> "wasm_runtime_unload", a |-> unit, r |-> 0]>> ELSE <<>>)

\* C15: the destructor does what unload() does.  Whatever the controller held
\* when it is destroyed (nothing after an explicit unload or a failed load, an
\* instance and its unit when still loaded), each held handle is released by
\* exactly one call, the instance first, no other call is made, the controller
\* holds nothing afterwards and the engine no longer holds those objects.
C15_DestructorUnloads ==
  [][op'.name = "~WamrModule" =>
       /\ calls' = ReleaseCalls(module_inst[op'.c], module[op'.c])
       /\ module_inst'[op'.c] = NULL /\ module'[op'.c] = NULL /\ ~loaded'[op'.c]
       /\ ~alive'[op'.c]
       /\ ~misuse' =>
            /\ liveModules' = liveModules \ {module[op'.c]}
            /\ liveInsts' = {p \in liveInsts : p[1] # module_inst[op'.c]}]_vars

\* A controller that was still loaded has been destroyed.
C15_Witness ==
  /\ op.name = "~WamrModule" /\ ~alive[op.c] /\ ~misuse
  /\ calls = ReleaseCalls(1, 1)
  /\ module[op.c] = NULL /\ module_inst[op.c] = NULL
  /\ liveModules = {} /\ liveInsts = {}

\* C16: in a program that unloads every controller before end(), whatever
\* step failed on the way (allocation, engine initialization, compile,
\* instantiate, thread set-up, execution environment, lookup, the call
\* itself): no handle or buffer is ever released twice or used after its
\* release; when end() is entered the engine holds no unit, instance or
\* execution environment and no worker thread exists, so nothing is left for
\* the engine's destruction to sweep; and when end() has returned no global
\* buffer, unit, instance, execution environment or thread is live.
C16_FailClosed ==
  [][/\ ~misuse' /\ ~badFree'
     /\ op'.name = "end" =>
          /\ liveModules = {} /\ liveInsts = {} /\ liveEnvs = {}
          /\ running = {} /\ exited = {}
          /\ heapLive' = {} /\ liveModules' = {} /\ liveInsts' = {} /\ liveEnvs' = {}
          /\ running' = {} /\ exited' = {}
          /\ ~engineUp' /\ ~initialized' /\ global_heap_buf' = NULL]_vars

\* end() has destroyed the engine and freed the buffer after a begin() had
\* failed, a call had succeeded and the controller had been unloaded.
C16_Witness ==
  /\ op.name = "end" /\ Made(calls, "wasm_runtime_destroy") /\ Made(calls, "free")
  /\ error_msg = ErrInitFailed /\ last_result[Caller] = 100
  /\ heapLive = {} /\ ~engineUp /\ ~misuse /\ ~badFree

\* callFunction on controller c has just returned r to its caller.
Returned(name, r) == op.name = name /\ pc = "idle" /\ ret = r

\* C17: when callFunction(f, argc, argv) with argc > 0 has returned true,
\* getResult() on that controller is argv[0] as the engine left it, the value
\* the function returned.
C17_ResultRoundTrip ==
  [][(Returned("callFunction", TRUE)' /\ op'.arg > 0 /\ argv' # NullArgv) =>
       /\ getResult(Cur, op.c)' = argv'[1]
       /\ argv'[1] = wasmResult']_vars

\* add(42, 58) has succeeded: the engine left 7 in argv[0].
C17_Witness ==
  /\ Returned("callFunction", TRUE) /\ op.arg = 2 /\ func = "add"
  /\ argv = <<7, 58>> /\ wasmResult = 7 /\ getResult(Cur, op.c) = 7

\* C18: getResult() is the result of the last function call: whenever
\* callFunction has returned true, with or without an argv array, getResult()
\* on that controller is the value the function returned in that call.
C18_ResultOfLastCall ==
  [][Returned("callFunction", TRUE)' => getResult(Cur, op.c)' = wasmResult']_vars

\* Text `name' occurs in text `buf'.
Contains(buf, name) ==
  \E i \in 1..(Len(buf) - Len(name) + 1) : SubSeq(buf, i, i + Len(name) - 1) = name

\* The first n characters of a text.
FirstChars(str, n) == IF Len(str) <= n THEN str ELSE SubSeq(str, 1, n)

\* callFunction has just returned from a call, made on a loaded module, of a
\* name the instance does not export.
MissingNameCallReturned ==
  /\ Returned("callFunction", ret)' /\ func' \in MissingNames
  /\ isLoaded(Cur, op'.c) /\ ~misuse'

ThreadSetUpFailed(cs) ==
  \/ Answered(cs, "pthread_attr_init", 1)
  \/ Answered(cs, "pthread_attr_setstacksize", 1)
  \/ Answered(cs, "pthread_create", NULL)

\* C19 as stated: on a loaded module, callFunction of a name the instance does
\* not export returns false and getError() afterwards contains that name.
C19_Original ==
  [][MissingNameCallReturned =>
       /\ ret' = FALSE
       /\ Contains(getError(Cur, op.c)', func')]_vars

\* C19, amended: such a call returns false; getError() afterwards is the
\* thread error if the worker could not be set up or created, the
\* execution-environment error if that could not be created, and otherwise
\* "Function '<name>' not found" cut to the 127 characters the error buffer
\* holds, which contains the name whenever it has at most 117 characters; of
\* a longer name only the first 117 characters are kept.
C19_NotFoundError ==
  [][MissingNameCallReturned =>
       /\ ret' = FALSE
       /\ IF ThreadSetUpFailed(calls')
          THEN getError(Cur, op.c)' \in {ErrAttrInit, ErrSetStack, ErrCreateThread}
          ELSE IF Answered(calls', "wasm_runtime_create_exec_env", NULL)
          THEN getError(Cur, op.c)' = ErrExecEnv
          ELSE /\ getError(Cur, op.c)'
                    = FirstChars("Function '" \o func' \o "' not found", 127)
               /\ Len(func') <= 117 => Contains(getError(Cur, op.c)', func')
               /\ Len(func') > 117 =>
                    getError(Cur, op.c)' = "Function '" \o FirstChars(func', 117)]_vars

\* A missing name of 117 characters has been called: the message is cut but
\* still holds the whole name.
C19_Witness ==
  /\ Returned("callFunction", FALSE) /\ func = NameThatFits
  /\ isLoaded(Cur, op.c) /\ ~misuse
  /\ Made(calls, "wasm_runtime_lookup_function")
  /\ Len(getError(Cur, op.c)) = 127 /\ Contains(getError(Cur, op.c), func)

\* The workers alive: threads created and not yet joined.
Workers == running \cup exited

\* C20: a callFunction creates at most one worker thread and joins it before
\* it returns.  At no time are two workers alive; a worker is alive only
\* while the primary thread waits in pthread_join for exactly that thread;
\* the call issues pthread_create at most once; and when it has returned, no
\* worker is alive and the thread it created, if any, has been joined.
C20_OneWorkerJoined ==
  /\ Cardinality(Workers) <= 1
  /\ Cardinality(CallsOf(calls, "pthread_create")) <= 1
  /\ pc = "joining" => Workers = {thread}
  /\ pc = "idle" =>
       /\ Workers = {}
       /\ \A k \in CallsOf(calls, "pthread_create") :
            calls[k].r # NULL =>
              \E j \in CallsOf(calls, "pthread_join") : j > k /\ calls[j].a = calls[k].r

\* callFunction has returned after its worker ran the call and was joined.
C20_Witness ==
  /\ op.name = "callFunction" /\ pc = "idle" /\ Workers = {}
  /\ Answered(calls, "pthread_create", 1) /\ Made(calls, "wasm_runtime_call_wasm")
  /\ Made(calls, "pthread_join")

\* The collaborator calls that callFunctionInternal makes.
EngineCalls(cs) == {k \in 1..Len(cs) : FirstChars(cs[k].f, 13) = "wasm_runtime_"}

\* An error callFunctionInternal can leave: not loaded, no execution
\* environment, function not found, exception, call failed.
IsInvokeError(e) ==
  \/ e \in {ErrNotLoaded, ErrExecEnv, ErrCallFailed}
  \/ FirstChars(e, 10) = "Function '"
  \/ FirstChars(e, 11) = "Exception: "

\* The error of the thread step that failed in call log cs.
ThreadError(cs) ==
  IF Answered(cs, "pthread_attr_init", 1) THEN ErrAttrInit
  ELSE IF Answered(cs, "pthread_attr_setstacksize", 1) THEN ErrSetStack
  ELSE ErrCreateThread

\* C21: when pthread_attr_init, pthread_attr_setstacksize or pthread_create
\* fails, callFunction returns false with the error of that step, which no
\* path of callFunctionInternal produces; callFunctionInternal is not run (no
\* execution environment, no lookup, no engine call); the caller's argv and
\* last_result are as before the call; and no thread exists.
C21_ThreadSetUpFailure ==
  [][(op'.name = "callFunction" /\ pc' = "idle" /\ ThreadSetUpFailed(calls')) =>
       /\ ret' = FALSE
       /\ getError(Cur, op.c)' = ThreadError(calls')
       /\ ~IsInvokeError(getError(Cur, op.c)')
       /\ EngineCalls(calls') = {}
       /\ wasmResult' = NoValue
       /\ \E a \in CallShapes : a.name = func' /\ a.argc = op'.arg /\ a.argv = argv'
       /\ last_result' = last_result
       /\ Workers' = {}
       /\ UNCHANGED <<ControllerHandles, EngineState, liveEnvs>>]_vars

\* pthread_create has failed on a loaded controller whose earlier call had
\* succeeded: add(42, 58) was not run.
C21_Witness ==
  /\ Returned("callFunction", FALSE) /\ Answered(calls, "pthread_create", NULL)
  /\ isLoaded(Cur, op.c) /\ func = "add" /\ argv = <<42, 58>>
  /\ error_buf[op.c] = ErrCreateThread /\ last_result[op.c] = 100

\* What a call leaves behind, apart from its return value and its call log.
CallEffect(s) ==
  <<s.argv, s.wasmResult, s.last_result, s.error_buf, s.module, s.module_inst, s.loaded,
    s.stack_size_for_exec_env, s.engineUp, s.pool, s.liveModules, s.liveInsts,
    s.liveEnvs, s.misuse>>

\* The steps of a callFunction whose thread was created.
ThreadCreatedStep == pc = "idle" /\ pc' = "joining"
WorkerStep == \E t \in running : t \in exited'
JoinStep == pc = "joining" /\ pc' = "idle"

\* C22: with thread creation succeeding, callFunction is callFunctionRaw.
\* Creating the thread hands the caller's name, argc and argv to the worker
\* and changes nothing a call leaves behind; the worker's step has the
\* effect, the collaborator calls and the verdict that callFunctionRaw with
\* the same arguments and the same engine answers has from that state; and
\* the join returns that verdict and changes nothing else.
C22_SafeIsRaw ==
  [][/\ ThreadCreatedStep =>
          /\ CallEffect(Cur)'
               = CallEffect(WithArgs(Enter(Cur, "callFunction", op'.c, op'.arg), func', argv'))
          /\ \E a \in CallShapes : a.name = func' /\ a.argc = op'.arg /\ a.argv = argv'
          /\ ctx' = [module |-> op'.c, func_name |-> func', argc |-> op'.arg,
                     argv |-> argv' # NullArgv, success |-> FALSE]
     /\ WorkerStep =>
          \E envOk \in BOOLEAN, callOk \in BOOLEAN, res \in ResultValues, exc \in Exceptions :
            LET r == callFunctionRaw(Cur, ctx.module, ctx.func_name, ctx.argc, ctx.argv,
                                     envOk, callOk, res, exc)
            IN /\ CallEffect(Cur)' = CallEffect(r)
               /\ calls' = r.calls
               /\ ctx'.success = r.ret
     /\ JoinStep =>
          /\ ret' = ctx.success
          /\ CallEffect(Cur)' = CallEffect(Cur)]_vars

\* The worker of add(42, 58) has finished with success; the caller has not
\* yet returned from the join.
C22_Witness ==
  /\ pc = "joining" /\ exited = {thread} /\ ctx.success /\ ctx.func_name = "add"
  /\ argv = <<100, 58>> /\ wasmResult = 100 /\ last_result[ctx.module] = 100

\* The stack size a call log shows a thread to have been created with.
CreatedWith(cs) == {cs[k].a : k \in CallsOf(cs, "pthread_attr_setstacksize")}

PthreadCalls(cs) == {k \in 1..Len(cs) : FirstChars(cs[k].f, 8) = "pthread_"}

\* C23: the one static thread_stack_size starts at 32 KB and changes only in
\* setThreadStackSize, to the size passed.  The setting is shared: on each of
\* the two controllers, the worker of a callFunction is created with the
\* value the one setting had when the call started, whichever controller
\* called before.  Changing the setting changes nothing else: a worker that
\* is running or waiting to be joined, its context and the record of its
\* creation stay as they are.  callFunctionRaw neither reads the setting nor
\* makes any thread call.
C23_ThreadStackSize ==
  /\ thread_stack_size = WAMR_DEFAULT_THREAD_STACK
  /\ [][/\ op'.name = "setThreadStackSize" => thread_stack_size' = op'.arg
        /\ thread_stack_size' # thread_stack_size =>
             /\ pc = "idle" =>
                  /\ op'.name = "setThreadStackSize" /\ calls' = <<>>
                  /\ CallEffect(Cur)' = CallEffect(Enter(Cur, op'.name, 0, op'.arg))
             /\ pc = "joining" =>
                  /\ UNCHANGED <<calls, op, ret, argv, func>>
                  /\ CallEffect(Cur)' = CallEffect(Cur)
             /\ UNCHANGED <<running, exited, thread, ctx, pc>>
        /\ \A c \in PairControllers :
             (ThreadCreatedStep /\ op'.c = c) =>
               /\ CreatedWith(calls') = {thread_stack_size}
               /\ \A k \in CallsOf(calls', "pthread_create") :
                    calls'[k].a = thread_stack_size
        /\ op'.name = "callFunctionRaw" => PthreadCalls(calls') = {}]_vars

\* Both controllers are loaded.  The setting was raised to 64 KB, the second
\* controller's callFunction created its worker with 64 KB, and the setting
\* was lowered again while that worker was still running.
C23_Witness ==
  /\ pc = "joining" /\ running = {thread}
  /\ op.name = "callFunction" /\ op.c = 2 /\ ctx.module = 2
  /\ isLoaded(Cur, 1) /\ isLoaded(Cur, 2)
  /\ CreatedWith(calls) = {64 * 1024} /\ thread_stack_size = WAMR_DEFAULT_THREAD_STACK

\* The engine call of the worker has returned: the worker has run to its end.
WorkerDone == pc = "joining" /\ thread \in exited

\* C24: callFunction blocks without a timeout.  It returns from the join only
\* when its worker, and so the engine call the worker made, has returned; as
\* long as the worker has not returned the caller stays in the join; and once
\* the worker has returned, a fairly scheduled caller eventually returns.
C24_Blocking ==
  /\ [][JoinStep => (thread \in exited /\ thread \notin running)]_vars
  /\ [][(pc = "joining" /\ thread \in running /\ running' = running) => pc' = "joining"]_vars
  /\ WorkerDone ~> pc = "idle"

\* The caller has returned from a join whose worker ended in an engine exception.
C24_Witness ==
  /\ Returned("callFunction", FALSE) /\ Made(calls, "pthread_join")
  /\ Answered(calls, "wasm_runtime_call_wasm", 0) /\ Workers = {}

\* The message that describes the failure a call log shows.
LoadFailureText(cs) ==
  IF ~Made(cs, "wasm_runtime_load") THEN ErrNotInitialized
  ELSE IF Answered(cs, "wasm_runtime_load", NULL) THEN EngineLoadError
  ELSE EngineInstantiateError

InvokeFailureText(cs, name) ==
  IF EngineCalls(cs) = {} THEN ErrNotLoaded
  ELSE IF Answered(cs, "wasm_runtime_create_exec_env", NULL) THEN ErrExecEnv
  ELSE IF Answered(cs, "wasm_runtime_lookup_function", NULL)
  THEN FirstChars("Function '" \o name \o "' not found", 127)
  ELSE IF Answered(cs, "wasm_runtime_get_exception", 1) THEN "Exception: " \o ExceptionText
  ELSE ErrCallFailed

\* C25: whenever load, callFunction or callFunctionRaw has returned false,
\* getError() is not nullptr and is the message of the step that failed:
\* runtime not initialized, the engine's compile or instantiate diagnostic,
\* the thread step, module not loaded, no execution environment, function not
\* found, the engine's exception, or the generic call failure.
C25_FailureHasMessage ==
  (pc = "idle" /\ ~ret /\ op.name \in {"load", "callFunction", "callFunctionRaw"}) =>
    /\ getError(Cur, op.c) # NoError
    /\ op.name = "load" => getError(Cur, op.c) = LoadFailureText(calls)
    /\ op.name = "callFunctionRaw" => getError(Cur, op.c) = InvokeFailureText(calls, func)
    /\ op.name = "callFunction" =>
         getError(Cur, op.c) = IF ThreadSetUpFailed(calls) THEN ThreadError(calls)
                               ELSE InvokeFailureText(calls, func)

\* A raw call has failed with the engine's exception.
C25_Witness ==
  /\ Returned("callFunctionRaw", FALSE) /\ Answered(calls, "wasm_runtime_get_exception", 1)
  /\ getError(Cur, op.c) = "Exception: out of bounds memory access"

\* C26 as stated: immediately after a load, callFunction or callFunctionRaw
\* that returned true, and after unload(), getError() is nullptr.
C26_Original ==
  (pc = "idle" /\ \/ op.name = "unload"
                  \/ ret /\ op.name \in {"load", "callFunction", "callFunctionRaw"}) =>
    getError(Cur, op.c) = NoError

\* C26, amended: getError() is nullptr immediately after unload() and after a
\* load() that returned true.  A callFunction or callFunctionRaw that returns
\* true does not touch the error: creating the thread, the worker's successful
\* run and the join each leave it as it was, and so does a successful raw call.
C26_ErrorClearedByLoadAndUnload ==
  [][/\ op'.name = "unload" => getError(Cur, op.c)' = NoError
     /\ (op'.name = "load" /\ ret') => getError(Cur, op.c)' = NoError
     /\ (op'.name = "callFunctionRaw" /\ ret') => error_buf' = error_buf
     /\ ThreadCreatedStep => error_buf' = error_buf
     /\ (WorkerStep /\ ctx'.success) => error_buf' = error_buf
     /\ JoinStep => error_buf' = error_buf]_vars

\* add(42, 58) has returned true and getError() still reports the missing
\* function of an earlier call.
C26_Witness ==
  /\ Returned("callFunction", TRUE) /\ func = "add" /\ wasmResult = 100
  /\ getError(Cur, op.c) = "Function 'doesNotExist' not found"

\* C27: begin() asks PSRAM (heap_caps_malloc) first and internal RAM (malloc)
\* second, each at most once and for the size passed; malloc is called only
\* after heap_caps_malloc has answered NULL; the one address obtained is the
\* buffer the engine is initialized with and the runtime keeps; and a begin()
\* never holds two allocations.
C27_AllocationOrder ==
  op.name = "begin" =>
    /\ Cardinality(CallsOf(calls, "heap_caps_malloc")) <= 1
    /\ Cardinality(CallsOf(calls, "malloc")) <= 1
    /\ \A k \in CallsOf(calls, "heap_caps_malloc") \cup CallsOf(calls, "malloc") :
         calls[k].a = op.arg
    /\ \A k \in CallsOf(calls, "malloc") :
         \E j \in CallsOf(calls, "heap_caps_malloc") : j < k /\ calls[j].r = NULL
    /\ Cardinality(AllocatedIn(calls)) <= 1
    /\ Made(calls, "wasm_runtime_full_init") => AllocatedIn(calls) # {}
    /\ EngineInitSucceeded(calls) =>
         /\ {pool.buf} = AllocatedIn(calls) /\ {global_heap_buf} = AllocatedIn(calls)
         /\ heapLive = AllocatedIn(calls)
    /\ EngineInitFailed(calls) => (FreedIn(calls) = AllocatedIn(calls) /\ heapLive = {})

\* PSRAM had no memory: the pool was taken from internal RAM and the engine
\* runs on it.
C27_Witness ==
  /\ op.name = "begin" /\ ret /\ initialized
  /\ Answered(calls, "heap_caps_malloc", NULL) /\ Made(calls, "malloc")
  /\ global_heap_buf \in InternalAddrs /\ pool.buf = global_heap_buf

\* In call log cs: the calls that hand out handle h (acquire f) and the calls
\* given it (release f, or instantiate for the unit it instantiates).
HandedOut(cs, f, h) == {k \in CallsOf(cs, f) : cs[k].r = h}
GivenTo(cs, f, h) == {k \in CallsOf(cs, f) : cs[k].a = h}
Before(S, k) == {j \in S : j < k}
LatestOf(S) == CHOOSE x \in S : \A y \in S : y <= x

\* Each release of h in cs releases a holding of h that has not been released
\* yet: the one the controller had when the operation began (held = h) if
\* nothing happened to h earlier in the operation, else one handed out since
\* the last release.
ReleasesHoldings(cs, acquire, release, h, held) ==
  \A k \in GivenTo(cs, release, h) :
    LET earlier == Before(HandedOut(cs, acquire, h) \cup GivenTo(cs, release, h), k)
    IN IF earlier = {} THEN held = h
       ELSE LatestOf(earlier) \in HandedOut(cs, acquire, h)

\* When unit m is unloaded, no instance derived from it is still held: the
\* instance the controller held with it at the beginning (inst) and every
\* instance instantiated from m in the operation have been deinstantiated in
\* between.
InstancesFirst(cs, m, unit, inst) ==
  \A k \in GivenTo(cs, "wasm_runtime_unload", m) :
    /\ (unit = m /\ inst # NULL
        /\ Before(HandedOut(cs, "wasm_runtime_load", m)
                  \cup GivenTo(cs, "wasm_runtime_unload", m), k) = {}) =>
         Before(GivenTo(cs, "wasm_runtime_deinstantiate", inst), k) # {}
    /\ \A j \in Before(GivenTo(cs, "wasm_runtime_instantiate", m), k) :
         (cs[j].r # NULL
          /\ Before(GivenTo(cs, "wasm_runtime_unload", m), k) \subseteq Before(1..Len(cs), j)) =>
           \E d \in Before(GivenTo(cs, "wasm_runtime_deinstantiate", cs[j].r), k) : d > j

ReleaseCallsIn(cs) ==
  CallsOf(cs, "wasm_runtime_deinstantiate") \cup CallsOf(cs, "wasm_runtime_unload")

\* C28: in every operation (unload, load and reload, failed load, destructor)
\* each deinstantiate and each unload call releases a holding that has not
\* been released before, a unit is unloaded only after the instances derived
\* from it have been deinstantiated, a handle whose last holding was released
\* is no longer held afterwards, and the call path releases nothing.
C28_TeardownOrder ==
  [][/\ pc = "idle" =>
          /\ \A h \in InstHandles :
               /\ ReleasesHoldings(calls', "wasm_runtime_instantiate",
                                   "wasm_runtime_deinstantiate", h, module_inst[op'.c])
               /\ GivenTo(calls', "wasm_runtime_deinstantiate", h) # {} =>
                    (module_inst'[op'.c] = h =>
                       \E j \in HandedOut(calls', "wasm_runtime_instantiate", h) :
                         j > LatestOf(GivenTo(calls', "wasm_runtime_deinstantiate", h)))
          /\ \A m \in ModHandles :
               /\ ReleasesHoldings(calls', "wasm_runtime_load", "wasm_runtime_unload",
                                   m, module[op'.c])
               /\ InstancesFirst(calls', m, module[op'.c], module_inst[op'.c])
               /\ GivenTo(calls', "wasm_runtime_unload", m) # {} =>
                    (module'[op'.c] = m =>
                       \E j \in HandedOut(calls', "wasm_runtime_load", m) :
                         j > LatestOf(GivenTo(calls', "wasm_runtime_unload", m)))
     /\ pc = "joining" => ReleaseCallsIn(calls') = {}]_vars

\* A reload whose instantiation failed: unit 1 was released, handed out again
\* and released again, the old instance before the first release.
C28_Witness ==
  /\ op.name = "load" /\ ~ret /\ Len(calls) = 5
  /\ calls[1] = [f |-> "wasm_runtime_deinstantiate", a |-> 1, r |-> 0]
  /\ calls[2] = [f |-> "wasm_runtime_unload", a |-> 1, r |-> 0]
  /\ calls[3] = [f |-> "wasm_runtime_load", a |-> 0, r |-> 1]
  /\ calls[4] = [f |-> "wasm_runtime_instantiate", a |-> 1, r |-> NULL]
  /\ calls[5] = [f |-> "wasm_runtime_unload", a |-> 1, r |-> 0]

\* C29: a controller that holds an instance holds a compiled unit too, and
\* that unit is the one the instance was instantiated from: it is the unit the
\* engine records for the instance, and after a load() that returned true it
\* is the unit given to the wasm_runtime_instantiate call that returned the
\* instance.
C29_InstanceNeedsUnit ==
  \A c \in Controllers :
    module_inst[c] # NULL =>
      /\ module[c] # NULL
      /\ ~misuse => \A p \in liveInsts : p[1] = module_inst[c] => p[2] = module[c]
      /\ (pc = "idle" /\ op.name = "load" /\ op.c = c /\ ret) =>
           LET k == LatestOf(CallsOf(calls, "wasm_runtime_instantiate"))
           IN calls[k].a = module[c] /\ calls[k].r = module_inst[c]

\* A controller has just been loaded: it holds instance 1 of unit 1.
C29_Witness ==
  /\ Returned("load", TRUE) /\ ~misuse
  /\ module_inst[op.c] = 1 /\ module[op.c] = 1 /\ liveInsts = {<<1, 1>>}

\* C30: loaded is true exactly when module_inst is not null, in every state;
\* so the guard of callFunctionInternal (loaded and module_inst) lets a call
\* through to the engine exactly when isLoaded() is true, on the raw path and
\* in the worker alike.
C30_LoadedFlagAgrees ==
  /\ [](\A c \in Controllers : loaded[c] <=> isLoaded(Cur, c))
  /\ [][/\ op'.name = "callFunctionRaw" =>
             (EngineCalls(calls') # {} <=> isLoaded(Cur, op'.c))
        /\ WorkerStep =>
             (EngineCalls(calls') # {} <=> isLoaded(Cur, ctx.module))]_vars

\* A call on a controller that is not loaded, in an initialized runtime, was
\* turned away by the guard.
C30_Witness ==
  /\ Returned("callFunction", FALSE) /\ Made(calls, "pthread_join") /\ initialized
  /\ ~loaded[op.c] /\ ~isLoaded(Cur, op.c) /\ EngineCalls(calls) = {}
  /\ getError(Cur, op.c) = ErrNotLoaded

\* ---------------------------------------------------------------- C31
\* A step in which callFunctionInternal ran: on the worker thread for
\* callFunction, on the caller's thread for callFunctionRaw.
InvokeRan == WorkerStep \/ (pc = "idle" /\ op'.name = "callFunctionRaw")

\* The controller the invocation of this step ran on.
InvokedOn == IF WorkerStep THEN ctx.module ELSE op'.c

\* An invocation of a name the instance does not export, on a loaded module.
MissingNameInvoked ==
  /\ InvokeRan /\ func' \in MissingNames
  /\ isLoaded(Cur, InvokedOn) /\ ~misuse'

\* C31 as stated: an invocation of a name that is not exported creates no
\* execution environment, and its error is the function-not-found message
\* whatever the engine would have answered to the creation.
C31_Original ==
  [][MissingNameInvoked =>
       /\ ~Made(calls', "wasm_runtime_create_exec_env")
       /\ error_buf'[InvokedOn] = NotFoundMessage(func')]_vars

\* C31, amended: the invocation creates the execution environment before it
\* looks the function up.  Every lookup in an invocation follows a creation
\* that succeeded; for a name that is not exported the environment is created
\* first and destroyed after the lookup, and the error is the
\* function-not-found message only when the creation succeeded: when it
\* failed no lookup is made and the error is the execution-environment one.
C31_ContextBeforeLookup ==
  [][InvokeRan =>
       /\ \A k \in CallsOf(calls', "wasm_runtime_lookup_function") :
            \E j \in CallsOf(calls', "wasm_runtime_create_exec_env") :
              j < k /\ calls'[j].r # NULL
       /\ MissingNameInvoked =>
            /\ Made(calls', "wasm_runtime_create_exec_env")
            /\ ~Made(calls', "wasm_runtime_call_wasm")
            /\ IF Answered(calls', "wasm_runtime_create_exec_env", NULL)
               THEN /\ ~Made(calls', "wasm_runtime_lookup_function")
                    /\ error_buf'[InvokedOn] = Snprintf(ErrExecEnv)
               ELSE /\ Answered(calls', "wasm_runtime_lookup_function", NULL)
                    /\ Made(calls', "wasm_runtime_destroy_exec_env")
                    /\ error_buf'[InvokedOn] = NotFoundMessage(func')]_vars

\* A raw call of a missing name has failed because no execution environment
\* could be created: the lookup was never made.
C31_Witness ==
  /\ Returned("callFunctionRaw", FALSE) /\ func = "doesNotExist"
  /\ Answered(calls, "wasm_runtime_create_exec_env", NULL)
  /\ ~Made(calls, "wasm_runtime_lookup_function")
  /\ getError(Cur, op.c) = ErrExecEnv /\ ~misuse

\* ---------------------------------------------------------------- C32
\* The execution environments a call log created, and the destructions of
\* environment e that follow position k.
EnvsCreated(cs) == {k \in CallsOf(cs, "wasm_runtime_create_exec_env") : cs[k].r # NULL}
DestroyedAfter(cs, k, e) == {j \in GivenTo(cs, "wasm_runtime_destroy_exec_env", e) : j > k}

\* C32: every execution environment an invocation creates is destroyed
\* exactly once, after its creation and within the same invocation, whether
\* the function was called and returned, was not found, or failed in the
\* engine; nothing else is destroyed, and no execution environment is live
\* in any state between the steps of the calls.
C32_ContextDestroyedOnce ==
  /\ [](liveEnvs = {})
  /\ [][InvokeRan =>
          /\ \A k \in EnvsCreated(calls') :
               Cardinality(DestroyedAfter(calls', k, calls'[k].r)) = 1
          /\ Cardinality(CallsOf(calls', "wasm_runtime_destroy_exec_env"))
               = Cardinality(EnvsCreated(calls'))]_vars

\* A call has failed in the engine after its environment was created: the
\* environment was destroyed before the exception was read.
C32_Witness ==
  /\ Returned("callFunction", FALSE) /\ Answered(calls, "wasm_runtime_call_wasm", 0)
  /\ EnvsCreated(calls) # {}
  /\ \A k \in EnvsCreated(calls) :
       \E j \in DestroyedAfter(calls, k, calls[k].r) :
         \A g \in CallsOf(calls, "wasm_runtime_get_exception") : j < g
  /\ liveEnvs = {} /\ ~misuse

\* ---------------------------------------------------------------- C33
\* The verdict of the invocation of this step: the worker leaves it in the
\* call context, a raw call returns it.
InvokeVerdict == IF WorkerStep THEN ctx'.success ELSE ret'

\* The engine call of a log failed.
EngineCallFailed(cs) == Answered(cs, "wasm_runtime_call_wasm", 0)

\* C33: when the engine call fails, the invocation asks the engine for the
\* pending exception; the error is "Exception: " followed by the exception
\* text if the instance has one and "Function call failed" otherwise, the
\* invocation and the call that made it return false, and last_result keeps
\* its value.
C33_EngineFailure ==
  /\ [][(InvokeRan /\ EngineCallFailed(calls')) =>
          /\ ~InvokeVerdict
          /\ Made(calls', "wasm_runtime_get_exception")
          /\ error_buf'[InvokedOn] =
               IF Answered(calls', "wasm_runtime_get_exception", 1)
               THEN "Exception: " \o ExceptionText ELSE ErrCallFailed
          /\ last_result' = last_result]_vars
  /\ [][(JoinStep /\ EngineCallFailed(calls)) =>
          /\ ret' = FALSE
          /\ error_buf' = error_buf /\ last_result' = last_result]_vars

\* After a successful add(42, 58) a callFunction of add has failed in the
\* engine with no exception pending: the error is the generic one and
\* getResult() is still 100.
C33_Witness ==
  /\ Returned("callFunction", FALSE) /\ func = "add" /\ EngineCallFailed(calls)
  /\ Answered(calls, "wasm_runtime_get_exception", 0)
  /\ getError(Cur, op.c) = ErrCallFailed
  /\ getResult(Cur, op.c) = 100 /\ ~misuse

\* ---------------------------------------------------------------- C34
\* This step is a load() on controller c that returned true.
LoadSucceededOn(c) == pc = "idle" /\ op'.name = "load" /\ op'.c = c /\ ret'

\* C34: the stored stack size of a controller is 0 whenever the controller is
\* not loaded; while it is loaded it is the stack size given to the load()
\* that loaded it, no other step changing it; and every execution environment
\* is created with the stored stack size of the controller invoked.
C34_StackSizeOfLastLoad ==
  /\ [](\A c \in Controllers : ~isLoaded(Cur, c) => stack_size_for_exec_env[c] = 0)
  /\ [][/\ \A c \in Controllers :
             loaded'[c] =>
               stack_size_for_exec_env'[c] =
                 IF LoadSucceededOn(c) THEN op'.arg ELSE stack_size_for_exec_env[c]
        /\ InvokeRan =>
             \A k \in CallsOf(calls', "wasm_runtime_create_exec_env") :
               calls'[k].a = stack_size_for_exec_env[InvokedOn]]_vars

\* A module loaded with a stack of 8 KB has been called: its execution
\* environment was created with 8 KB.
C34_Witness ==
  /\ Returned("callFunction", TRUE) /\ isLoaded(Cur, op.c)
  /\ stack_size_for_exec_env[op.c] = 8 * 1024
  /\ \E k \in CallsOf(calls, "wasm_runtime_create_exec_env") : calls[k].a = 8 * 1024
  /\ ~misuse

\* ---------------------------------------------------------------- C35
\* A step of callFunction or callFunctionRaw, and the state in which one of
\* them has returned on a controller that is not loaded.
CallStep == op'.name \in {"callFunction", "callFunctionRaw"}
NotLoadedCallReturned ==
  /\ pc = "idle" /\ op.name \in {"callFunction", "callFunctionRaw"}
  /\ ~isLoaded(Cur, op.c)

\* No step of a call changes the loaded flag, and on a controller that is not
\* loaded none changes last_result.
NotLoadedCallFrame ==
  CallStep => /\ loaded' = loaded
              /\ ~isLoaded(Cur, op'.c) => last_result' = last_result

\* C35 as stated: a call on a controller that is not loaded returns false
\* with the module-not-loaded error and makes no engine call; isLoaded() stays
\* false and last_result is unchanged.
C35_Original ==
  /\ [](NotLoadedCallReturned =>
          /\ ~ret /\ getError(Cur, op.c) = ErrNotLoaded
          /\ EngineCalls(calls) = {})
  /\ [][NotLoadedCallFrame]_vars

\* C35, amended: such a call returns false and makes no engine call,
\* isLoaded() stays false and last_result is unchanged; the error is the
\* module-not-loaded one, except that callFunction reports the thread error
\* when its worker could not be set up or created.
C35_NotLoadedCall ==
  /\ [](NotLoadedCallReturned =>
          /\ ~ret /\ EngineCalls(calls) = {}
          /\ getError(Cur, op.c) = IF ThreadSetUpFailed(calls) THEN ThreadError(calls)
                                   ELSE ErrNotLoaded)
  /\ [][NotLoadedCallFrame]_vars

\* callFunction on a controller that is not loaded ran its worker and joined
\* it; the worker refused the call without asking the engine.
C35_Witness ==
  /\ Returned("callFunction", FALSE) /\ ~isLoaded(Cur, op.c)
  /\ Made(calls, "pthread_join") /\ EngineCalls(calls) = {}
  /\ getError(Cur, op.c) = ErrNotLoaded

\* ---------------------------------------------------------------- C36
\* The engine operations that take a handle of a controller.
HandleOps ==
  {"wasm_runtime_deinstantiate", "wasm_runtime_unload", "wasm_runtime_create_exec_env",
   "wasm_runtime_lookup_function", "wasm_runtime_call_wasm"}

\* The operation of this step gave the engine a handle.
HandleGiven == \E k \in 1..Len(calls') : calls'[k].f \in HandleOps

\* C36: isLoaded() is never true while the runtime is not initialized, and no
\* step that gives the engine a handle gives it one the engine does not hold:
\* one of a runtime that end() has destroyed.
C36_HandlesOfLiveRuntime ==
  /\ [](\A c \in Controllers : isLoaded(Cur, c) => initialized)
  /\ [][HandleGiven => misuse' = misuse]_vars

\* ---------------------------------------------------------------- C37
\* This step is a successful invocation on controller c made with argc > 0.
CallWithArgsSucceededOn(c) == InvokeRan /\ InvokedOn = c /\ InvokeVerdict /\ op'.arg > 0

\* This step constructs controller c.
ConstructedNow(c) == pc = "idle" /\ op'.name = "WamrModule" /\ op'.c = c

\* C37: last_result of a controller changes only in a successful invocation
\* with argc > 0 or in its construction, which sets it to 0: failed calls,
\* calls with argc = 0, load(), unload(), begin() and end() leave getResult()
\* as it was.
C37_ResultFrame ==
  [][\A c \in Controllers :
       /\ getResult(Cur, c)' # getResult(Cur, c) =>
            CallWithArgsSucceededOn(c) \/ ConstructedNow(c)
       /\ ConstructedNow(c) => getResult(Cur, c)' = 0]_vars

\* After add(42, 58) returned 100 the module has been unloaded: getResult()
\* is still 100.
C37_Witness ==
  /\ Returned("unload", TRUE) /\ ~isLoaded(Cur, op.c)
  /\ getResult(Cur, op.c) = 100 /\ ~misuse

\* ---------------------------------------------------------------- C38
\* C38: a worker exists only while its callFunction waits for it, and is the
\* thread that call created.  The worker runs once: it writes the success
\* flag of the call context with the verdict of the invocation and touches
\* nothing else of the context; only the worker makes the flag true.  The
\* caller reads the flag in the step in which the join returns, which needs
\* the worker to have exited, and only then gives up the context: no worker
\* is left to use it after callFunction has returned.
C38_ContextHandOff ==
  /\ [](running # {} => /\ pc = "joining" /\ running = {thread}
                        /\ ctx.module # 0 /\ ~ctx.success)
  /\ [](pc = "idle" => ctx = NoCtx /\ running = {})
  /\ [][/\ WorkerStep =>
             /\ thread \in running /\ thread \notin exited
             /\ ctx' = [ctx EXCEPT !.success = Answered(calls', "wasm_runtime_call_wasm", 1)]
        /\ (ctx'.success /\ ~ctx.success) => WorkerStep
        /\ JoinStep => /\ thread \in exited /\ running = {}
                       /\ ret' = ctx.success /\ ctx' = NoCtx]_vars

\* The worker has written true into the context and exited; the caller is
\* still in pthread_join and has not read it.
C38_Witness ==
  /\ pc = "joining" /\ thread \in exited /\ running = {}
  /\ ctx.success /\ ctx.module = op.c /\ op.name = "callFunction"
  /\ Answered(calls, "wasm_runtime_call_wasm", 1) /\ ~Made(calls, "pthread_join")

\* ---------------------------------------------------------------- C39
\* The operations of the execution bridge on either of the two controllers,
\* run one after another on the caller's thread.
PairUnload ==
  \E c \in PairControllers : Idle /\ Becomes(unload(Enter(Cur, "unload", c, 0), c))

PairCallRaw ==
  \E c \in PairControllers, envOk \in BOOLEAN, callOk \in BOOLEAN :
    /\ Idle
    /\ EngineAnswers(c, AddShape.name, envOk, callOk, LowestOf(ResultValues), NoException)
    /\ Becomes(callFunctionRaw(WithArgs(Enter(Cur, "callFunctionRaw", c, AddShape.argc),
                                        AddShape.name, AddShape.argv),
                               c, AddShape.name, AddShape.argc, TRUE, envOk, callOk,
                               LowestOf(ResultValues), NoException))

PairNext == ExecBegin \/ ExecEnd \/ PairLoad \/ PairUnload \/ PairCallRaw

SpecPair == InitPair /\ [][PairNext]_vars

\* What a controller holds and reports.
ControllerState(c) ==
  <<module[c], module_inst[c], stack_size_for_exec_env[c], loaded[c],
    error_buf[c], last_result[c]>>

\* C39: two controllers never hold the same engine handle, and an operation
\* on one controller leaves what every other controller holds and reports
\* as it was.
C39_NoInterference ==
  /\ [](\A c \in PairControllers : \A d \in PairControllers \ {c} :
          /\ module[c] # NULL => module[c] # module[d]
          /\ module_inst[c] # NULL => module_inst[c] # module_inst[d])
  /\ [][\A c \in PairControllers \ {op'.c} :
          ControllerState(c)' = ControllerState(c)]_vars

====
